---- MODULE Spec2Model ----
(***************************************************************************)
(* A model of mpm, the Mesh Plugin Manager: the version matcher and the    *)
(* dependency provider of src/mpm/resolver.py, the registry client of      *)
(* src/mpm/registry.py, the installer and the manifest/lockfile store of   *)
(* src/src/mesh_plugin_manager, and the install and remove commands.       *)
(*                                                                         *)
(* Python strings are modelled as sequences of one-character strings, so   *)
(* that strip(), startswith(), split("@") and semver.Version.parse are     *)
(* computed on the characters as the code computes them.                   *)
(***************************************************************************)
EXTENDS Integers, Sequences, FiniteSets, TLC

(***************************************************************************)
(* Strings                                                                 *)
(***************************************************************************)
Digits == {"0", "1", "2", "3", "4", "5", "6", "7", "8", "9"}

DigitVal(c) ==
  CASE c = "0" -> 0 [] c = "1" -> 1 [] c = "2" -> 2 [] c = "3" -> 3
    [] c = "4" -> 4 [] c = "5" -> 5 [] c = "6" -> 6 [] c = "7" -> 7
    [] c = "8" -> 8 [] c = "9" -> 9

Whitespace == {" "}

\* s[i:] of Python (i counted from 0): the string without its first i characters.
Drop(s, i) == IF i >= Len(s) THEN << >> ELSE SubSeq(s, i + 1, Len(s))

\* s.startswith(prefix)
StartsWith(s, prefix) ==
  /\ Len(s) >= Len(prefix)
  /\ SubSeq(s, 1, Len(prefix)) = prefix

RECURSIVE LStrip(_)
LStrip(s) == IF s # << >> /\ Head(s) \in Whitespace THEN LStrip(Tail(s)) ELSE s

RECURSIVE RStrip(_)
RStrip(s) ==
  IF s # << >> /\ s[Len(s)] \in Whitespace THEN RStrip(SubSeq(s, 1, Len(s) - 1)) ELSE s

\* s.strip()
Strip(s) == RStrip(LStrip(s))

\* c in s, for a character c
Contains(s, c) == \E i \in 1..Len(s) : s[i] = c

\* The index of the first occurrence of c in s (0 when there is none).
RECURSIVE IndexFrom(_, _, _)
IndexFrom(s, c, i) ==
  IF i > Len(s) THEN 0 ELSE IF s[i] = c THEN i ELSE IndexFrom(s, c, i + 1)

IndexOf(s, c) == IndexFrom(s, c, 1)

\* s.split(c): the sequence of the parts of s between the occurrences of c.
RECURSIVE Split(_, _)
Split(s, c) ==
  LET i == IndexOf(s, c)
  IN IF i = 0 THEN << s >>
     ELSE << SubSeq(s, 1, i - 1) >> \o Split(Drop(s, i), c)

\* s.split(c, 1): at most one split, at the first occurrence of c.
Split1(s, c) ==
  LET i == IndexOf(s, c)
  IN IF i = 0 THEN << s >> ELSE << SubSeq(s, 1, i - 1), Drop(s, i) >>

(***************************************************************************)
(* semver.Version: the triple (major, minor, patch).  Version.parse raises *)
(* ValueError unless the whole string is X.Y.Z with X, Y, Z decimal        *)
(* numbers without leading zeros (the strings of this model carry no       *)
(* prerelease or build suffix).                                            *)
(***************************************************************************)
RECURSIVE NumValue(_)
NumValue(ds) ==
  IF ds = << >> THEN 0
  ELSE 10 * NumValue(SubSeq(ds, 1, Len(ds) - 1)) + DigitVal(ds[Len(ds)])

IsNumeric(part) ==
  /\ Len(part) >= 1
  /\ \A i \in 1..Len(part) : part[i] \in Digits
  /\ Len(part) > 1 => part[1] # "0"

ValueError == [ok |-> FALSE, major |-> 0, minor |-> 0, patch |-> 0]

VersionParse(s) ==
  LET OfParts(parts) ==
        IF Len(parts) = 3 /\ \A i \in 1..3 : IsNumeric(parts[i])
        THEN [ok |-> TRUE, major |-> NumValue(parts[1]), minor |-> NumValue(parts[2]),
              patch |-> NumValue(parts[3])]
        ELSE ValueError
  IN OfParts(Split(s, "."))

\* Comparison of two parsed versions: lexicographic on the triple.
VersionLt(v, w) ==
  \/ v.major < w.major
  \/ v.major = w.major /\ v.minor < w.minor
  \/ v.major = w.major /\ v.minor = w.minor /\ v.patch < w.patch

VersionEq(v, w) == v.major = w.major /\ v.minor = w.minor /\ v.patch = w.patch

VersionLe(v, w) == VersionLt(v, w) \/ VersionEq(v, w)

bump_major(v) == [ok |-> TRUE, major |-> v.major + 1, minor |-> 0, patch |-> 0]

bump_minor(v) == [ok |-> TRUE, major |-> v.major, minor |-> v.minor + 1, patch |-> 0]

(***************************************************************************)
(* PluginProvider._satisfies_version(version, spec): version is a parsed   *)
(* semver.Version, spec the range string.                                  *)
(***************************************************************************)
SatisfiesCaretNoUpper(version, rest) ==
  LET From(base_version) ==
        /\ base_version.ok
        /\ VersionLe(base_version, version)
  IN From(VersionParse(rest))

SatisfiesCaret(version, rest) ==
  LET Within(base_version) ==
        /\ base_version.ok
        /\ VersionLe(base_version, version)
        /\ VersionLt(version, bump_major(base_version))
  IN Within(VersionParse(rest))

SatisfiesTildeMajor(version, rest) ==
  LET Within(base_version) ==
        /\ base_version.ok
        /\ VersionLe(base_version, version)
        /\ VersionLt(version, bump_major(base_version))
  IN Within(VersionParse(rest))

SatisfiesTilde(version, rest) ==
  LET Within(base_version) ==
        /\ base_version.ok
        /\ VersionLe(base_version, version)
        /\ VersionLt(version, bump_minor(base_version))
  IN Within(VersionParse(rest))

SatisfiesComparator(version, s) ==
  LET Ge(min_version) == min_version.ok /\ VersionLe(min_version, version)
      Le(max_version) == max_version.ok /\ VersionLe(version, max_version)
      Gt(min_version) == min_version.ok /\ VersionLt(min_version, version)
      Lt(max_version) == max_version.ok /\ VersionLt(version, max_version)
      Eq(req_version) == req_version.ok /\ VersionEq(version, req_version)
  IN IF StartsWith(s, << ">", "=" >>) THEN Ge(VersionParse(Strip(Drop(s, 2))))
     ELSE IF StartsWith(s, << "<", "=" >>) THEN Le(VersionParse(Strip(Drop(s, 2))))
     ELSE IF StartsWith(s, << ">" >>) THEN Gt(VersionParse(Strip(Drop(s, 1))))
     ELSE IF StartsWith(s, << "<" >>) THEN Lt(VersionParse(Strip(Drop(s, 1))))
     ELSE IF StartsWith(s, << "=" >>) THEN Eq(VersionParse(Strip(Drop(s, 1))))
     ELSE Eq(VersionParse(s))

satisfies_version(version, spec) ==
  LET s == Strip(spec)
  IN IF s = << >> \/ s = << "*" >> THEN TRUE
     ELSE IF StartsWith(s, << "^" >>) THEN SatisfiesCaret(version, Drop(s, 1))
     ELSE IF StartsWith(s, << "~" >>) THEN SatisfiesTilde(version, Drop(s, 1))
     ELSE SatisfiesComparator(version, s)

(***************************************************************************)
(* A local variable: Only({F(x) : x \in {e}}) is F(e), the value e being   *)
(* computed once and named x, as an assignment x = e names it in the code. *)
(***************************************************************************)
Only(S) == CHOOSE x \in S : TRUE

(***************************************************************************)
(* Mappings (Python dicts) are functions; Put is d[k] = v.                 *)
(***************************************************************************)
Put(d, k, v) == (k :> v) @@ d

EmptyMap == << >>

\* The slug of the host firmware, which is not a plugin.
Host == << "m", "e", "s", "h", "t", "a", "s", "t", "i", "c" >>

\* Requirement(identifier, spec)
Requirement(identifier, spec) ==
  [kind |-> "Requirement", identifier |-> identifier, spec |-> spec]

\* A plain string handed to identify().
Str(s) == [kind |-> "str", value |-> s]

\* f"{identifier}@{version_str}"
CandidateStr(identifier, version_str) == identifier \o << "@" >> \o version_str

(***************************************************************************)
(* PluginProvider.  Its state p is the record of its mutable attributes:   *)
(* requirement_specs (identifier -> the spec identify() saw last) and      *)
(* manifest_cache (cache key -> the dependencies of a cloned manifest).    *)
(* p.clones counts the git clones made, per cache key; the code keeps no   *)
(* such counter, it records the calls of subprocess.run.                   *)
(* _candidate_to_identifier is written by find_matches and never read, so  *)
(* it is left out.                                                         *)
(*                                                                         *)
(* A registry is a mapping slug -> entry; an entry is the record           *)
(* [keys, version, deps] where keys is the set of the keys the JSON object *)
(* has among "version", "repo" and "dependencies", and deps the sequence   *)
(* of the (slug, spec) items of "dependencies" in the dict's order.        *)
(*                                                                         *)
(* remote[slug] is what a clone of the plugin's repository at its tag      *)
(* gives: [clone, src, manifest, deps], clone and src booleans, manifest   *)
(* one of "none" (no meshtastic.json), "badjson" (json.JSONDecodeError),   *)
(* "undecodable" (bytes that are not UTF-8: UnicodeDecodeError, which the  *)
(* except clause of get_dependencies does not name) and "json".  The       *)
(* result of get_dependencies is [p, deps, exc], exc the exception that    *)
(* left it or "".                                                          *)
(***************************************************************************)
NewProvider == [requirement_specs |-> EmptyMap, manifest_cache |-> EmptyMap,
                clones |-> EmptyMap]

identifyKeepFirst(p, x) ==
  IF x.kind = "Requirement"
  THEN [p |-> [p EXCEPT !.requirement_specs =
                 IF x.identifier \in DOMAIN @ THEN @ ELSE Put(@, x.identifier, x.spec)],
        id |-> x.identifier]
  ELSE IF Contains(x.value, "@")
       THEN [p |-> p, id |-> Split(x.value, "@")[1]]
       ELSE [p |-> p, id |-> x.value]

identify(p, x) ==
  IF x.kind = "Requirement"
  THEN [p |-> [p EXCEPT !.requirement_specs = Put(@, x.identifier, x.spec)],
        id |-> x.identifier]
  ELSE IF Contains(x.value, "@")
       THEN [p |-> p, id |-> Split(x.value, "@")[1]]
       ELSE [p |-> p, id |-> x.value]

\* The parameters of get_preference and the methods of the class, which
\* decide what a call of the resolution engine on the provider does.
get_preference_params == {"identifier", "resolutions", "candidates", "information"}

ProviderMethods ==
  {"identify", "get_preference", "find_matches", "satisfies_version",
   "get_dependencies", "is_satisfied_by"}

\* requirements and incompatibilities are the mappings identifier -> list
\* the engine passes; the code never reads requirements.
find_matches(p, registry, identifier, requirements, incompatibilities) ==
  IF identifier \notin DOMAIN registry THEN << >>
  ELSE
    LET plugin_info == registry[identifier]
        version_str == plugin_info.version
        version_spec == IF identifier \in DOMAIN p.requirement_specs
                        THEN p.requirement_specs[identifier]
                        ELSE << "*" >>
        version == VersionParse(version_str)
        candidate == CandidateStr(identifier, version_str)
    IN IF "version" \notin plugin_info.keys THEN << >>
       ELSE IF ~version.ok THEN << >>
       ELSE IF \/ candidate \in DOMAIN incompatibilities
               \/ version_str \in DOMAIN incompatibilities
            THEN << >>
       ELSE IF satisfies_version(version, version_spec) THEN << candidate >>
       ELSE << >>

RECURSIVE DepRequirementsAll(_)
DepRequirementsAll(deps) ==
  IF deps = << >> THEN << >>
  ELSE << Requirement(Head(deps).slug, Head(deps).spec) >>
       \o DepRequirementsAll(Tail(deps))

\* [Requirement(dep_slug, dep_spec) for dep_slug, dep_spec in deps.items()
\*  if dep_slug != "meshtastic"]
RECURSIVE DepRequirements(_)
DepRequirements(deps) ==
  IF deps = << >> THEN << >>
  ELSE (IF Head(deps).slug # Host
        THEN << Requirement(Head(deps).slug, Head(deps).spec) >>
        ELSE << >>) \o DepRequirements(Tail(deps))

CountClone(p, cache_key) ==
  [p EXCEPT !.clones =
     Put(@, cache_key, IF cache_key \in DOMAIN @ THEN @[cache_key] + 1 ELSE 1)]

get_dependencies(p, registry, remote, candidate) ==
  IF ~Contains(candidate, "@") THEN [p |-> p, deps |-> << >>, exc |-> ""]
  ELSE
    LET parts == Split1(candidate, "@")
        identifier == parts[1]
        version == parts[2]
        cache_key == CandidateStr(identifier, version)
        inRegistry == identifier \in DOMAIN registry
        plugin_info == registry[identifier]
        registryVersion == IF "version" \in plugin_info.keys
                           THEN plugin_info.version ELSE version
        repo_url == inRegistry /\ "repo" \in plugin_info.keys
        cloned == remote[identifier]
    IN IF cache_key \in DOMAIN p.manifest_cache
       THEN [p |-> p, deps |-> DepRequirements(p.manifest_cache[cache_key]), exc |-> ""]
       ELSE IF /\ inRegistry
               /\ version = registryVersion
               /\ "dependencies" \in plugin_info.keys
       THEN [p |-> p, deps |-> DepRequirements(plugin_info.deps), exc |-> ""]
       ELSE IF ~repo_url THEN [p |-> p, deps |-> << >>, exc |-> ""]
       ELSE IF cloned.clone /\ cloned.manifest = "json"
       THEN [p |-> [CountClone(p, cache_key) EXCEPT
                      !.manifest_cache = Put(@, cache_key, cloned.deps)],
             deps |-> DepRequirements(cloned.deps), exc |-> ""]
       ELSE IF cloned.clone /\ cloned.manifest = "undecodable"
       THEN [p |-> CountClone(p, cache_key), deps |-> << >>,
             exc |-> "UnicodeDecodeError"]
       ELSE [p |-> CountClone(p, cache_key), deps |-> << >>, exc |-> ""]

is_satisfied_by(p, requirement, candidate) ==
  IF ~Contains(candidate, "@") THEN FALSE
  ELSE
    LET parts == Split1(candidate, "@")
        candidate_identifier == parts[1]
        candidate_version == parts[2]
        req_identifier == IF requirement.kind = "Requirement"
                          THEN requirement.identifier ELSE requirement.value
        req_spec == IF requirement.kind = "Requirement" THEN requirement.spec
                    ELSE IF req_identifier \in DOMAIN p.requirement_specs
                         THEN p.requirement_specs[req_identifier]
                         ELSE << "*" >>
        version == VersionParse(candidate_version)
    IN /\ candidate_identifier = req_identifier
       /\ version.ok
       /\ satisfies_version(version, req_spec)

(***************************************************************************)
(* The resolution engine: resolvelib.Resolver, the third-party library     *)
(* DependencyResolver.resolve hands the provider to (spec 4.4).  A state   *)
(* of the engine is [mapping, keys, criteria]: mapping the ordered pins    *)
(* (name, candidate), criteria the mapping identifier -> Criterion and     *)
(* keys its insertion order.  A Criterion is [candidates, information,     *)
(* incompatibilities]; an information is [requirement, parent].            *)
(* A result carries exc, the exception raised ("" when none).              *)
(*                                                                         *)
(* lib is the release of the library, which the repository does not pin:   *)
(* "1.0" asks the provider's get_preference in every round, with the       *)
(* keyword backtrack_causes; "1.1" asks narrow_requirement_selection and   *)
(* get_preference only when several identifiers are unsatisfied.           *)
(***************************************************************************)
LibVersions == {"1.0", "1.1"}

NoParent == << >>

Last(seq) == seq[Len(seq)]

Front(seq) == SubSeq(seq, 1, Len(seq) - 1)

Criterion(candidates, information, incompatibilities) ==
  [candidates |-> candidates, information |-> information,
   incompatibilities |-> incompatibilities]

Information(requirement, parent) == [requirement |-> requirement, parent |-> parent]

RECURSIVE Requirements(_)
Requirements(information) ==
  IF information = << >> THEN << >>
  ELSE << Head(information).requirement >> \o Requirements(Tail(information))

\* IteratorMapping(criteria, methodcaller("iter_requirement"), appends)
RequirementsMapping(criteria, identifier, appended) ==
  [k \in DOMAIN criteria \cup {identifier} |->
     (IF k \in DOMAIN criteria THEN Requirements(criteria[k].information) ELSE << >>)
     \o (IF k = identifier THEN appended ELSE << >>)]

\* IteratorMapping(criteria, attrgetter("incompatibilities"), appends)
IncompatibilitiesMapping(criteria, identifier, appended) ==
  [k \in DOMAIN criteria \cup {identifier} |->
     (IF k \in DOMAIN criteria THEN criteria[k].incompatibilities ELSE << >>)
     \o (IF k = identifier THEN appended ELSE << >>)]

\* criteria[identifier] = criterion, on the dict cr = [keys, criteria]
SetCriterion(cr, identifier, criterion) ==
  [keys |-> IF identifier \in DOMAIN cr.criteria THEN cr.keys
            ELSE Append(cr.keys, identifier),
   criteria |-> Put(cr.criteria, identifier, criterion)]

add_to_criteria(p, registry, cr, requirement, parent) ==
  LET idr == identify(p, requirement)
      identifier == idr.id
      known == identifier \in DOMAIN cr.criteria
      incompatibilities == IF known THEN cr.criteria[identifier].incompatibilities
                           ELSE << >>
      information == (IF known THEN cr.criteria[identifier].information ELSE << >>)
                     \o << Information(requirement, parent) >>
  IN Only({IF criterion.candidates = << >>
           THEN [p |-> idr.p, exc |-> "RequirementsConflicted", cr |-> cr,
                 criterion |-> criterion]
           ELSE [p |-> idr.p, exc |-> "", cr |-> SetCriterion(cr, identifier, criterion),
                 criterion |-> criterion]
           : criterion \in
               {Criterion(
                  find_matches(idr.p, registry, identifier,
                    RequirementsMapping(cr.criteria, identifier, << requirement >>),
                    IncompatibilitiesMapping(cr.criteria, identifier, incompatibilities)),
                  information, incompatibilities)}})

\* for requirement in requirements: _add_to_criteria(criteria, requirement, parent)
RECURSIVE AddAll(_, _, _, _, _)
AddAll(p, registry, cr, requirements, parent) ==
  IF requirements = << >>
  THEN [p |-> p, exc |-> "", cr |-> cr, criterion |-> Criterion(<< >>, << >>, << >>)]
  ELSE Only({IF r.exc # "" THEN r
             ELSE AddAll(r.p, registry, r.cr, Tail(requirements), parent)
             : r \in {add_to_criteria(p, registry, cr, Head(requirements), parent)}})

get_updated_criteria(p, registry, remote, cr, candidate) ==
  Only({IF d.exc # ""
        THEN [p |-> d.p, exc |-> d.exc, cr |-> cr,
              criterion |-> Criterion(<< >>, << >>, << >>)]
        ELSE AddAll(d.p, registry, cr, d.deps, candidate)
        : d \in {get_dependencies(p, registry, remote, candidate)}})

\* self.state.mapping[name], NoParent on KeyError
RECURSIVE Pinned(_, _)
Pinned(mapping, name) ==
  IF mapping = << >> THEN NoParent
  ELSE IF Last(mapping).name = name THEN Last(mapping).candidate
  ELSE Pinned(Front(mapping), name)

AllSatisfied(p, information, candidate) ==
  \A i \in 1..Len(information) :
     is_satisfied_by(p, information[i].requirement, candidate)

is_current_pin_satisfying(p, state, name) ==
  /\ Pinned(state.mapping, name) # NoParent
  /\ AllSatisfied(p, state.criteria[name].information, Pinned(state.mapping, name))

\* mapping.pop(name, None); mapping[name] = candidate
RECURSIVE WithoutName(_, _)
WithoutName(mapping, name) ==
  IF mapping = << >> THEN << >>
  ELSE (IF Head(mapping).name = name THEN << >> ELSE << Head(mapping) >>)
       \o WithoutName(Tail(mapping), name)

Pin(mapping, name, candidate) ==
  Append(WithoutName(mapping, name), [name |-> name, candidate |-> candidate])

RECURSIVE TryCandidates(_, _, _, _, _, _, _)
TryCandidates(p, registry, remote, state, name, i, causes) ==
  LET criterion == state.criteria[name]
      candidate == criterion.candidates[i]
  IN IF i > Len(criterion.candidates)
     THEN [p |-> p, exc |-> "", pinned |-> FALSE, state |-> state, causes |-> causes]
     ELSE Only({IF upd.exc = "RequirementsConflicted"
                THEN TryCandidates(upd.p, registry, remote, state, name, i + 1,
                                   Append(causes, upd.criterion))
                ELSE IF upd.exc # ""
                THEN [p |-> upd.p, exc |-> upd.exc, pinned |-> FALSE,
                      state |-> state, causes |-> causes]
                ELSE IF ~AllSatisfied(upd.p, criterion.information, candidate)
                THEN [p |-> upd.p, exc |-> "InconsistentCandidate", pinned |-> FALSE,
                      state |-> state, causes |-> causes]
                ELSE [p |-> upd.p, exc |-> "", pinned |-> TRUE,
                      state |-> [mapping |-> Pin(state.mapping, name, candidate),
                                 keys |-> upd.cr.keys, criteria |-> upd.cr.criteria],
                      causes |-> << >>]
                : upd \in {get_updated_criteria(
                              p, registry, remote,
                              [keys |-> state.keys, criteria |-> state.criteria],
                              candidate)}})

attempt_to_pin_criterion(p, registry, remote, state, name) ==
  TryCandidates(p, registry, remote, state, name, 1, << >>)

\* {self._p.identify(x) for x in xs}, threading the provider's state
RECURSIVE IdentifyAll(_, _)
IdentifyAll(p, xs) ==
  IF xs = << >> THEN [p |-> p, ids |-> {}]
  ELSE LET r == identify(p, Head(xs))
           rest == IdentifyAll(r.p, Tail(xs))
       IN [p |-> rest.p, ids |-> {r.id} \cup rest.ids]

RECURSIVE CauseParents(_)
CauseParents(causes) ==
  IF causes = << >> THEN << >>
  ELSE (IF Head(causes).parent # NoParent THEN << Str(Head(causes).parent) >>
        ELSE << >>) \o CauseParents(Tail(causes))

\* The inner loop of _backjump: pop states until the popped pin depends on
\* one of incompatible_deps; IndexError and KeyError become ResolutionImpossible.
\* get_dependencies returned for the popped candidate when it was pinned, and
\* the repositories do not change during a call, so it returns here too.
RECURSIVE FindBroken(_, _, _, _, _)
FindBroken(p, registry, remote, states, incompatible_deps) ==
  IF states = << >> \/ Last(states).mapping = << >>
  THEN [p |-> p, exc |-> "ResolutionImpossible", states |-> states,
        broken_state |-> << >>, name |-> << >>, candidate |-> << >>]
  ELSE LET broken_state == Last(states)
           pin == Last(broken_state.mapping)
           d == get_dependencies(p, registry, remote, pin.candidate)
       IN Only({IF current.ids \cap incompatible_deps # {}
                THEN [p |-> current.p, exc |-> "", states |-> Front(states),
                      broken_state |-> broken_state, name |-> pin.name,
                      candidate |-> pin.candidate]
                ELSE FindBroken(current.p, registry, remote, Front(states),
                                incompatible_deps)
                : current \in {IdentifyAll(d.p, d.deps)}})

\* [(k, list(v.incompatibilities)) for k, v in broken_state.criteria.items()]
RECURSIVE IncompatibilitiesFrom(_, _)
IncompatibilitiesFrom(keys, criteria) ==
  IF keys = << >> THEN << >>
  ELSE << [k |-> Head(keys), incompatibilities |-> criteria[Head(keys)].incompatibilities] >>
       \o IncompatibilitiesFrom(Tail(keys), criteria)

RECURSIVE patch_criteria(_, _, _, _)
patch_criteria(p, registry, state, from_broken) ==
  IF from_broken = << >> THEN [success |-> TRUE, state |-> state]
  ELSE
    LET k == Head(from_broken).k
        incompatibilities == Head(from_broken).incompatibilities
        criterion == state.criteria[k]
    IN IF incompatibilities = << >> \/ k \notin DOMAIN state.criteria
       THEN patch_criteria(p, registry, state, Tail(from_broken))
       ELSE Only({IF matches = << >> THEN [success |-> FALSE, state |-> state]
                  ELSE patch_criteria(p, registry,
                         [state EXCEPT !.criteria =
                            Put(@, k, Criterion(matches, criterion.information,
                                                incompatibilities
                                                \o criterion.incompatibilities))],
                         Tail(from_broken))
                  : matches \in
                      {find_matches(p, registry, k,
                         RequirementsMapping(state.criteria, k, << >>),
                         IncompatibilitiesMapping(state.criteria, k,
                                                  incompatibilities))}})

\* The loop "while len(self._states) >= 3" of _backjump.
RECURSIVE BackjumpLoop(_, _, _, _, _)
BackjumpLoop(p, registry, remote, states, incompatible_deps) ==
  IF Len(states) < 3 THEN [p |-> p, exc |-> "", success |-> FALSE, states |-> states]
  ELSE
    Only({IF found.exc # ""
          THEN [p |-> found.p, exc |-> found.exc, success |-> FALSE,
                states |-> found.states]
          ELSE Only({IF patched.success
                     THEN [p |-> found.p, exc |-> "", success |-> TRUE,
                           states |-> Append(found.states, patched.state)]
                     ELSE BackjumpLoop(found.p, registry, remote,
                                       Append(found.states, patched.state),
                                       incompatible_deps)
                     : patched \in
                         {patch_criteria(
                            found.p, registry, Last(found.states),
                            IncompatibilitiesFrom(found.broken_state.keys,
                                                  found.broken_state.criteria)
                            \o << [k |-> found.name,
                                   incompatibilities |-> << found.candidate >>] >>)}})
          : found \in {FindBroken(p, registry, remote, Front(states),
                                  incompatible_deps)}})

backjump(p, registry, remote, states, causes) ==
  LET incompatible == IdentifyAll(p, CauseParents(causes) \o Requirements(causes))
  IN BackjumpLoop(incompatible.p, registry, remote, states, incompatible.ids)

\* causes = [i for c in failure_causes for i in c.information]
RECURSIVE Causes(_)
Causes(failure_causes) ==
  IF failure_causes = << >> THEN << >>
  ELSE Head(failure_causes).information \o Causes(Tail(failure_causes))

RECURSIVE KeepInformation(_, _, _)
KeepInformation(p, information, parents) ==
  IF information = << >> THEN << >>
  ELSE (IF \/ Head(information).parent = NoParent
           \/ identify(p, Str(Head(information).parent)).id \notin parents
        THEN << Head(information) >> ELSE << >>)
       \o KeepInformation(p, Tail(information), parents)

remove_information_from_criteria(p, criteria, parents) ==
  IF parents = {} THEN criteria
  ELSE [k \in DOMAIN criteria |->
          [criteria[k] EXCEPT !.information = KeepInformation(p, @, parents)]]

\* PluginProvider.get_preference, called as the engine calls it: candidates
\* is the mapping identifier -> candidates, so sorted(candidates, key=parse)
\* parses its keys, and candidates[0] looks the key 0 up.
get_preference(identifier, resolutions, candidates, information) ==
  IF \E k \in DOMAIN candidates : ~VersionParse(k).ok
  THEN [exc |-> "ValueError", value |-> << >>]
  ELSE IF DOMAIN candidates # {} THEN [exc |-> "KeyError", value |-> << >>]
  ELSE [exc |-> "", value |-> << "0" >>]

\* The identifier the engine pins next, among unsatisfied_names (not empty):
\* name = min(unsatisfied_names, key=self._get_preference), release 1.1 first
\* narrowing the names with the provider's narrow_requirement_selection and
\* skipping both calls when a single name is unsatisfied.
choose_name(lib, state, unsatisfied_names) ==
  LET preference ==
        get_preference(unsatisfied_names[1], state.mapping,
                       [k \in DOMAIN state.criteria |-> state.criteria[k].candidates],
                       [k \in DOMAIN state.criteria |-> state.criteria[k].information])
  IN IF lib = "1.1" /\ Len(unsatisfied_names) = 1
     THEN [exc |-> "", name |-> unsatisfied_names[1]]
     ELSE IF lib = "1.1" /\ "narrow_requirement_selection" \notin ProviderMethods
     THEN [exc |-> "AttributeError", name |-> << >>]
     ELSE IF lib = "1.0" /\ "backtrack_causes" \notin get_preference_params
     THEN [exc |-> "TypeError", name |-> << >>]
     ELSE IF preference.exc # "" THEN [exc |-> preference.exc, name |-> << >>]
     ELSE [exc |-> "", name |-> unsatisfied_names[1]]

\* max_rounds, the default of Resolver.resolve, which the code does not override.
MaxRounds == 100

Unsatisfied(p, state) ==
  LET Test(key) == ~is_current_pin_satisfying(p, state, key)
  IN SelectSeq(state.keys, Test)

Range(seq) == {seq[i] : i \in 1..Len(seq)}

\* One round of Resolution.resolve on the run r = [p, exc, done, states]:
\* states is the stack of the engine's states, done says that the loop was left
\* (by return or by an exception).
round(r, lib, registry, remote) ==
  LET p == r.p
      states == r.states
      state == Last(states)
  IN IF r.done THEN r
     ELSE
       Only({
         IF unsatisfied_names = << >>
         THEN [p |-> p, exc |-> "", done |-> TRUE, states |-> states]
         ELSE
           Only({
             IF chosen.exc # ""
             THEN [p |-> p, exc |-> chosen.exc, done |-> TRUE, states |-> states]
             ELSE
               Only({
                 IF pin.exc # ""
                 THEN [p |-> pin.p, exc |-> pin.exc, done |-> TRUE, states |-> states]
                 ELSE IF pin.causes # << >>
                 THEN
                   \* success = self._backjump(causes)
                   Only({
                     IF jump.exc # "" \/ ~jump.success
                     THEN [p |-> jump.p, exc |-> "ResolutionImpossible", done |-> TRUE,
                           states |-> states]
                     ELSE [p |-> jump.p, exc |-> "", done |-> FALSE,
                           states |-> jump.states]
                     : jump \in {backjump(pin.p, registry, remote, states,
                                          Causes(pin.causes))}})
                 ELSE
                   \* the pins the new pin left unsatisfied; self._push_new_state()
                   Only({
                     [p |-> pin.p, exc |-> "", done |-> FALSE,
                      states |-> Front(states) \o << pinned, pinned >>]
                     : pinned \in
                         {[pin.state EXCEPT !.criteria =
                             remove_information_from_criteria(
                               pin.p, @,
                               {key \in Range(state.keys) \ Range(unsatisfied_names) :
                                  ~is_current_pin_satisfying(pin.p, pin.state, key)})]}})
                 : pin \in {attempt_to_pin_criterion(p, registry, remote, state,
                                                     chosen.name)}})
             : chosen \in {choose_name(lib, state, unsatisfied_names)}})
         : unsatisfied_names \in {Unsatisfied(p, state)}})

\* "for round_index in range(n)": n rounds in a row, in two halves.
RECURSIVE Rounds(_, _, _, _, _)
Rounds(r, lib, registry, remote, n) ==
  IF n = 0 \/ r.done THEN r
  ELSE IF n = 1 THEN round(r, lib, registry, remote)
  ELSE Rounds(Rounds(r, lib, registry, remote, n \div 2), lib, registry, remote,
              n - (n \div 2))

\* _build_result: the pins that have a route to the root through the parents
\* of their criteria.
RECURSIVE Connected(_, _)
Connected(state, connected) ==
  LET more == {key \in DOMAIN state.criteria :
                 \E i \in 1..Len(state.criteria[key].information) :
                    LET parent == state.criteria[key].information[i].parent
                    IN \/ parent = NoParent
                       \/ \E j \in 1..Len(state.mapping) :
                            /\ state.mapping[j].candidate = parent
                            /\ state.mapping[j].name \in connected}
  IN IF more \subseteq connected THEN connected
     ELSE Connected(state, connected \cup more)

build_result(state) ==
  LET connected == Connected(state, {})
      Test(pin) == pin.name \in connected
  IN SelectSeq(state.mapping, Test)

\* Resolver.resolve(requirements): the root state, max_rounds rounds, the
\* result; ResolutionTooDeep when the rounds are used up.
resolver_resolve(p, lib, registry, remote, req_list) ==
  Only({
    IF root.exc # ""
    THEN [p |-> root.p, exc |-> "ResolutionImpossible", mapping |-> << >>]
    ELSE
      Only({
        IF ~run.done
        THEN [p |-> run.p, exc |-> "ResolutionTooDeep", mapping |-> << >>]
        ELSE IF run.exc # ""
        THEN [p |-> run.p, exc |-> run.exc, mapping |-> << >>]
        ELSE [p |-> run.p, exc |-> "", mapping |-> build_result(Last(run.states))]
        : run \in
            {Rounds([p |-> root.p, exc |-> "", done |-> FALSE,
                     states |-> << [mapping |-> << >>, keys |-> root.cr.keys,
                                    criteria |-> root.cr.criteria],
                                   [mapping |-> << >>, keys |-> root.cr.keys,
                                    criteria |-> root.cr.criteria] >>],
                    lib, registry, remote, MaxRounds)}})
    : root \in {AddAll(p, registry, [keys |-> << >>, criteria |-> EmptyMap],
                       req_list, NoParent)}})

(***************************************************************************)
(* DependencyResolver.resolve(requirements): requirements is the dict of   *)
(* the requested slugs, as the sequence of its (slug, spec) items; the     *)
(* result is [p, exc, resolutions], resolutions the sequence of the        *)
(* (slug, version) items of the returned dict.                             *)
(***************************************************************************)
RECURSIVE ReqList(_)
ReqList(requirements) ==
  IF requirements = << >> THEN << >>
  ELSE << Requirement(Head(requirements).slug, Head(requirements).spec) >>
       \o ReqList(Tail(requirements))

RECURSIVE Resolutions(_)
Resolutions(mapping) ==
  IF mapping = << >> THEN << >>
  ELSE LET candidate == Head(mapping).candidate
           version == IF Contains(candidate, "@") THEN Split1(candidate, "@")[2]
                      ELSE candidate
       IN << [slug |-> Head(mapping).name, version |-> version] >>
          \o Resolutions(Tail(mapping))

resolve(p, lib, registry, remote, requirements) ==
  Only({[p |-> result.p, exc |-> result.exc,
         resolutions |-> Resolutions(result.mapping)]
        : result \in {resolver_resolve(p, lib, registry, remote,
                                       ReqList(requirements))}})

(***************************************************************************)
(* The inputs of the model: three plugins, each published in one version   *)
(* (the registry holds the latest version of a slug only), and three       *)
(* range strings.                                                          *)
(***************************************************************************)
SlugA == << "a" >>

SlugB == << "b" >>

SlugC == << "c" >>

Slugs == {SlugA, SlugB, SlugC}

V100 == << "1", ".", "0", ".", "0" >>

V120 == << "1", ".", "2", ".", "0" >>

V200 == << "2", ".", "0", ".", "0" >>

Published(slug) == IF slug = SlugA THEN V100 ELSE IF slug = SlugB THEN V120 ELSE V200

RangeStar == << "*" >>

RangeCaret100 == << "^", "1", ".", "0", ".", "0" >>

RangeGe200 == << ">", "=", "2", ".", "0", ".", "0" >>

RangeStrings == {RangeStar, RangeCaret100, RangeGe200}

\* The bounds: the dependencies one registry declares in all, and the
\* requirements one resolve call is given.
MaxDeps == 2

MaxReqs == 2

\* The order of the slugs in the dicts of the model.
SlugRank(slug) ==
  IF slug = SlugA THEN 1 ELSE IF slug = SlugB THEN 2 ELSE IF slug = SlugC THEN 3 ELSE 4

Item(slug, spec) == [slug |-> slug, spec |-> spec]

\* The dicts with at most n items, keys in targets, values in specs.
Dicts(targets, specs, n) ==
  {d \in UNION {[1..k -> {Item(t, r) : t \in targets, r \in specs}] : k \in 0..n} :
     \A i, j \in 1..Len(d) : i < j => SlugRank(d[i].slug) < SlugRank(d[j].slug)}

\* What a plugin declares: its dependencies on the other plugins and on the
\* host.  SlugC is a leaf.
Declared(slug) ==
  IF slug = SlugC THEN {<< >>}
  ELSE {d \in Dicts((Slugs \ {slug}) \cup (IF slug = SlugA THEN {Host} ELSE {}),
                    {RangeStar, RangeGe200}, MaxDeps) :
          \A i \in 1..Len(d) : d[i].slug = Host => d[i].spec = RangeStar}

\* How the declarations reach the resolver: "inline" in the registry entries,
\* "manifest" in the meshtastic.json of the repositories, "unreadable" when the
\* clones of the repositories fail.
Sources == {"inline", "manifest", "unreadable"}

\* The worlds of the model: what SlugA and SlugB declare, how it is published,
\* and whether SlugC is published at all.
World(src, pub, da, db) ==
  [source |-> src, published |-> pub,
   deps |-> (SlugA :> da) @@ (SlugB :> db) @@ (SlugC :> << >>)]

Worlds ==
  UNION {{World(src, pub, da, db) :
            src \in Sources, pub \in {Slugs, Slugs \ {SlugC}},
            db \in {d \in Declared(SlugB) : Len(da) + Len(d) <= MaxDeps}} :
         da \in Declared(SlugA)}

\* The registry document of a world.
RegistryOf(w) ==
  [s \in w.published |->
     [keys |-> {"version", "repo"}
               \cup (IF w.source = "inline" THEN {"dependencies"} ELSE {}),
      version |-> Published(s),
      deps |-> IF w.source = "inline" THEN w.deps[s] ELSE << >>]]

\* The repositories of a world, at the tags of the published versions.
RemoteOf(w) ==
  [s \in Slugs |->
     [clone |-> s \in w.published /\ w.source # "unreadable", src |-> TRUE,
      manifest |-> "json", deps |-> w.deps[s]]]

\* The requirement dicts a resolve call is given.
Requests == Dicts(Slugs, {RangeCaret100}, MaxReqs)

(***************************************************************************)
(* RegistryClient.  files is the cache directory: the cache file, "absent", *)
(* "undecodable" (not UTF-8: reading it raises UnicodeDecodeError),         *)
(* "corrupt" (json.load raises JSONDecodeError) or "json" with the document *)
(* it holds, and the timestamp file, "absent", "garbage" (float raises      *)
(* ValueError) or "float" with the time it holds.  Documents are told apart *)
(* by name.                                                                 *)
(***************************************************************************)
CACHE_DURATION == 3600

RegistryDocs == {"registry-1", "registry-2"}

CacheFile(state, data) == [state |-> state, data |-> data]

TimestampFile(state, value) == [state |-> state, value |-> value]

is_cache_valid(files, time) ==
  /\ files.cache.state # "absent"
  /\ files.timestamp.state # "absent"
  /\ files.timestamp.state = "float"
  /\ time - files.timestamp.value < CACHE_DURATION

\* The result of _read_cache: None, the document, or the exception it lets out.
read_cache(files) ==
  IF files.cache.state = "absent" THEN [exc |-> "", some |-> FALSE, data |-> ""]
  ELSE IF files.cache.state = "json" THEN [exc |-> "", some |-> TRUE, data |-> files.cache.data]
  ELSE IF files.cache.state = "corrupt" THEN [exc |-> "", some |-> FALSE, data |-> ""]
  ELSE [exc |-> "UnicodeDecodeError", some |-> FALSE, data |-> ""]

\* How a cache write ends: "ok", or with the IOError of one of its steps.
WriteOutcomes == {"ok", "mkdir", "open_cache", "dump", "open_timestamp", "write_timestamp"}

\* _write_cache got as far as open(self.cache_file, "w"): the cache file is
\* written anew, whole or not.
CacheRewritten(io) == io \notin {"mkdir", "open_cache"}

write_cacheStampFirst(files, data, time, io) ==
  IF io = "mkdir" THEN files
  ELSE IF io = "open_timestamp" THEN files
  ELSE IF io = "write_timestamp" THEN [files EXCEPT !.timestamp = TimestampFile("garbage", 0)]
  ELSE IF io = "open_cache" THEN [files EXCEPT !.timestamp = TimestampFile("float", time)]
  ELSE IF io = "dump"
       THEN [cache |-> CacheFile("corrupt", ""), timestamp |-> TimestampFile("float", time)]
  ELSE [cache |-> CacheFile("json", data), timestamp |-> TimestampFile("float", time)]

write_cache(files, data, time, io) ==
  IF io \in {"mkdir", "open_cache"} THEN files
  ELSE IF io = "dump" THEN [files EXCEPT !.cache = CacheFile("corrupt", "")]
  ELSE IF io = "open_timestamp" THEN [files EXCEPT !.cache = CacheFile("json", data)]
  ELSE IF io = "write_timestamp"
       THEN [cache |-> CacheFile("json", data), timestamp |-> TimestampFile("garbage", 0)]
  ELSE [cache |-> CacheFile("json", data), timestamp |-> TimestampFile("float", time)]

\* What requests.get, raise_for_status and response.json give: a document, or
\* a requests.RequestException.
RequestException == [ok |-> FALSE, data |-> ""]

Response(data) == [ok |-> TRUE, data |-> data]

NetOutcomes == {Response(d) : d \in RegistryDocs} \cup {RequestException}

Returns(files, network, data) ==
  [files |-> files, network |-> network, exc |-> "", data |-> data]

Raises(files, network, exc) ==
  [files |-> files, network |-> network, exc |-> exc, data |-> ""]

\* fetch_registry from the request on.
FetchRemote(files, time, net, io) ==
  IF net.ok THEN Returns(write_cache(files, net.data, time, io), TRUE, net.data)
  ELSE LET cached == read_cache(files)
       IN IF cached.exc # "" THEN Raises(files, TRUE, cached.exc)
          ELSE IF cached.some THEN Returns(files, TRUE, cached.data)
          ELSE Raises(files, TRUE, "RequestException")

fetch_registryFreshFallback(files, time, force_refresh, net, io) ==
  IF ~force_refresh /\ is_cache_valid(files, time)
  THEN LET cached == read_cache(files)
       IN IF cached.exc # "" THEN Raises(files, FALSE, cached.exc)
          ELSE IF cached.some THEN Returns(files, FALSE, cached.data)
          ELSE FetchRemote(files, time, net, io)
  ELSE IF ~net.ok /\ ~is_cache_valid(files, time)
       THEN Raises(files, TRUE, "RequestException")
       ELSE FetchRemote(files, time, net, io)

fetch_registryCacheFirst(files, time, force_refresh, net, io) ==
  IF is_cache_valid(files, time)
  THEN LET cached == read_cache(files)
       IN IF cached.exc # "" THEN Raises(files, FALSE, cached.exc)
          ELSE IF cached.some THEN Returns(files, FALSE, cached.data)
          ELSE FetchRemote(files, time, net, io)
  ELSE FetchRemote(files, time, net, io)

fetch_registry(files, time, force_refresh, net, io) ==
  IF ~force_refresh /\ is_cache_valid(files, time)
  THEN LET cached == read_cache(files)
       IN IF cached.exc # "" THEN Raises(files, FALSE, cached.exc)
          ELSE IF cached.some THEN Returns(files, FALSE, cached.data)
          ELSE FetchRemote(files, time, net, io)
  ELSE FetchRemote(files, time, net, io)

(***************************************************************************)
(* Python dicts that keep their insertion order: sequences of items        *)
(* [slug, spec] with distinct slugs.                                       *)
(***************************************************************************)
Keys(d) == {d[i].slug : i \in 1..Len(d)}

Get(d, k) == d[CHOOSE i \in 1..Len(d) : d[i].slug = k].spec

Set(d, k, v) ==
  IF k \in Keys(d)
  THEN [i \in 1..Len(d) |-> IF d[i].slug = k THEN Item(k, v) ELSE d[i]]
  ELSE Append(d, Item(k, v))

RECURSIVE Del(_, _)
Del(d, k) ==
  IF d = << >> THEN << >>
  ELSE IF Head(d).slug = k THEN Tail(d)
  ELSE << Head(d) >> \o Del(Tail(d), k)

(***************************************************************************)
(* PluginInstaller.  dirs[slug] is the directory plugins/<slug>: whether   *)
(* it exists, whether it holds a src directory, and its meshtastic.json    *)
(* ("none", "badjson" or "json" with the dependencies it declares).        *)
(***************************************************************************)
Tree(exists, src, manifest, deps) ==
  [exists |-> exists, src |-> src, manifest |-> manifest, deps |-> deps]

NoDir == Tree(FALSE, FALSE, "none", << >>)

\* What git clone gives: CalledProcessError with nothing or a partial directory
\* left behind, or the tree of the repository at the tag.
CloneError(tree) == [error |-> TRUE, tree |-> tree]

Cloned(tree) == [error |-> FALSE, tree |-> tree]

\* How shutil.rmtree ends.
RmOutcomes == {"ok", "OSError"}

Installed(dirs, ok) == [dirs |-> dirs, ok |-> ok, raised |-> FALSE]

InstallRaised(dirs) == [dirs |-> dirs, ok |-> FALSE, raised |-> TRUE]

install_pluginNoCleanup(dirs, plugin_slug, clone, rm) ==
  IF dirs[plugin_slug].exists /\ rm = "OSError" THEN InstallRaised(dirs)
  ELSE LET cloned == [dirs EXCEPT ![plugin_slug] = clone.tree]
           removed == [dirs EXCEPT ![plugin_slug] = NoDir]
       IN IF clone.error
          THEN IF clone.tree.exists
               THEN IF rm = "OSError" THEN InstallRaised(cloned)
                    ELSE Installed(removed, FALSE)
               ELSE Installed(cloned, FALSE)
          ELSE IF ~clone.tree.src
               THEN Installed(cloned, FALSE)
               ELSE Installed(cloned, TRUE)

install_pluginKeepsExisting(dirs, plugin_slug, clone, rm) ==
  IF dirs[plugin_slug].exists
  THEN IF rm = "OSError" THEN InstallRaised(dirs)
       ELSE Installed([dirs EXCEPT ![plugin_slug] = NoDir], FALSE)
  ELSE LET cloned == [dirs EXCEPT ![plugin_slug] = clone.tree]
           removed == [dirs EXCEPT ![plugin_slug] = NoDir]
       IN IF clone.error
          THEN IF clone.tree.exists
               THEN IF rm = "OSError" THEN InstallRaised(cloned)
                    ELSE Installed(removed, FALSE)
               ELSE Installed(cloned, FALSE)
          ELSE IF ~clone.tree.src
               THEN IF rm = "OSError" THEN InstallRaised(cloned)
                    ELSE Installed(removed, FALSE)
               ELSE Installed(cloned, TRUE)

install_plugin(dirs, plugin_slug, clone, rm) ==
  IF dirs[plugin_slug].exists /\ rm = "OSError" THEN InstallRaised(dirs)
  ELSE LET cloned == [dirs EXCEPT ![plugin_slug] = clone.tree]
           removed == [dirs EXCEPT ![plugin_slug] = NoDir]
       IN IF clone.error
          THEN IF clone.tree.exists
               THEN IF rm = "OSError" THEN InstallRaised(cloned)
                    ELSE Installed(removed, FALSE)
               ELSE Installed(cloned, FALSE)
          ELSE IF ~clone.tree.src
               THEN IF rm = "OSError" THEN InstallRaised(cloned)
                    ELSE Installed(removed, FALSE)
               ELSE Installed(cloned, TRUE)

remove_plugin(dirs, plugin_slug, rm) ==
  IF ~dirs[plugin_slug].exists THEN [dirs |-> dirs, ok |-> FALSE]
  ELSE IF rm = "OSError" THEN [dirs |-> dirs, ok |-> FALSE]
  ELSE [dirs |-> [dirs EXCEPT ![plugin_slug] = NoDir], ok |-> TRUE]

\* git rev-parse HEAD in the directory of the plugin.
get_plugin_commit(dirs, plugin_slug) == "HEAD"

is_plugin_installed(dirs, plugin_slug) ==
  dirs[plugin_slug].exists /\ dirs[plugin_slug].src

(***************************************************************************)
(* ManifestManager.  manifest is the "plugins" dict of meshtastic.json,    *)
(* lockfile the "plugins" dict of meshtastic-lock.json (slug -> entry).    *)
(***************************************************************************)
get_plugin_manifest(dirs, plugin_slug) ==
  IF dirs[plugin_slug].manifest = "none" THEN [raised |-> FALSE, some |-> FALSE, deps |-> << >>]
  ELSE IF dirs[plugin_slug].manifest = "badjson"
       THEN [raised |-> TRUE, some |-> FALSE, deps |-> << >>]
  ELSE [raised |-> FALSE, some |-> TRUE, deps |-> dirs[plugin_slug].deps]

add_dependencyAlone(manifest, plugin_slug, version_spec) ==
  << Item(plugin_slug, version_spec) >>

add_dependency(manifest, plugin_slug, version_spec) == Set(manifest, plugin_slug, version_spec)

remove_dependency(manifest, plugin_slug) ==
  IF plugin_slug \in Keys(manifest) THEN Del(manifest, plugin_slug) ELSE manifest

update_lockfile_pluginDropped(lockfile, plugin_slug, version, repo, resolved, dependencies, transitive) ==
  lockfile

update_lockfile_plugin(lockfile, plugin_slug, version, repo, resolved, dependencies, transitive) ==
  Put(lockfile, plugin_slug,
      [version |-> version, repo |-> repo, resolved |-> resolved,
       dependencies |-> dependencies, transitive |-> transitive])

remove_lockfile_plugin(lockfile, plugin_slug) ==
  IF plugin_slug \in DOMAIN lockfile
  THEN [s \in DOMAIN lockfile \ {plugin_slug} |-> lockfile[s]]
  ELSE lockfile

(***************************************************************************)
(* The commands.  project is the project directory: [dirs, manifest,       *)
(* lockfile].  A command ends with "ok" (it returned), "exit" (sys.exit(1)) *)
(* or "crash" (an exception left it).                                      *)
(***************************************************************************)
Project(dirs, manifest, lockfile) ==
  [dirs |-> dirs, manifest |-> manifest, lockfile |-> lockfile]

DependentsIgnored(lockfile, plugin_slug) == {}

\* cmd_remove: the other lockfile entries whose dependencies name the plugin.
Dependents(lockfile, plugin_slug) ==
  {slug \in DOMAIN lockfile \ {plugin_slug} :
     plugin_slug \in Keys(lockfile[slug].dependencies)}

cmd_removeKeepsManifest(project, plugin_slug, rm) ==
  IF ~is_plugin_installed(project.dirs, plugin_slug)
  THEN [project |-> project, exit |-> "ok"]
  ELSE IF Dependents(project.lockfile, plugin_slug) # {}
       THEN [project |-> project, exit |-> "exit"]
  ELSE LET removed == remove_plugin(project.dirs, plugin_slug, rm)
       IN IF removed.ok
          THEN [project |-> Project(removed.dirs, project.manifest,
                                    remove_lockfile_plugin(project.lockfile, plugin_slug)),
                exit |-> "ok"]
          ELSE [project |-> [project EXCEPT !.dirs = removed.dirs], exit |-> "exit"]

\* cmd_remove(args): nothing to do for a plugin that is not installed, exit 1
\* when other lockfile entries depend on it or when remove_plugin fails, and
\* otherwise the directory, the manifest entry and the lockfile entry go.
cmd_remove(project, plugin_slug, rm) ==
  IF ~is_plugin_installed(project.dirs, plugin_slug)
  THEN [project |-> project, exit |-> "ok"]
  ELSE IF Dependents(project.lockfile, plugin_slug) # {}
       THEN [project |-> project, exit |-> "exit"]
  ELSE LET removed == remove_plugin(project.dirs, plugin_slug, rm)
       IN IF removed.ok
          THEN [project |-> Project(removed.dirs,
                                    remove_dependency(project.manifest, plugin_slug),
                                    remove_lockfile_plugin(project.lockfile, plugin_slug)),
                exit |-> "ok"]
          ELSE [project |-> [project EXCEPT !.dirs = removed.dirs], exit |-> "exit"]

Latest == << "l", "a", "t", "e", "s", "t" >>

\* cmd_install: the dict of the plugins named on the command line, each
\* "slug" or "slug@spec".
RECURSIVE ParseArgs(_, _)
ParseArgs(plugins, args) ==
  IF args = << >> THEN plugins
  ELSE LET plugin_spec == Head(args)
           parts == Split1(plugin_spec, "@")
       IN ParseArgs(IF Contains(plugin_spec, "@")
                    THEN Set(plugins, parts[1], parts[2])
                    ELSE Set(plugins, plugin_spec, Latest),
                    Tail(args))

plugins_to_install(args, manifest) ==
  IF args # << >> THEN ParseArgs(<< >>, args) ELSE manifest

\* cmd_install: the requirements of the plugins to install, "latest" replaced
\* by the version of the registry; exit when the registry has none.
RECURSIVE InstallRequirements(_, _, _)
InstallRequirements(requirements, plugins, registry) ==
  IF plugins = << >> THEN [exit |-> "", requirements |-> requirements]
  ELSE LET slug == Head(plugins).slug
           spec == Head(plugins).spec
       IN IF spec = Latest
          THEN IF slug \in DOMAIN registry /\ "version" \in registry[slug].keys
               THEN InstallRequirements(Set(requirements, slug, registry[slug].version),
                                        Tail(plugins), registry)
               ELSE [exit |-> "exit", requirements |-> requirements]
          ELSE InstallRequirements(Set(requirements, slug, spec), Tail(plugins), registry)

Plan(exit, plugins, resolutions) ==
  [exit |-> exit, cause |-> "", plugins |-> plugins, resolutions |-> resolutions]

\* sys.exit(1) before anything is installed: cause is "fetch" (fetch_registry
\* raised), "registry" (the registry has no version for a plugin requested
\* without one) or "resolve" (resolver.resolve raised).
Failed(cause, plugins) == [Plan("exit", plugins, << >>) EXCEPT !.cause = cause]

\* cmd_install up to the resolution: fetched says whether fetch_registry
\* returned the registry (it raised otherwise).
InstallPlan(manifest, lib, registry, remote, args, fetched) ==
  IF ~fetched THEN Failed("fetch", << >>)
  ELSE LET plugins == plugins_to_install(args, manifest)
           reqs == InstallRequirements(<< >>, plugins, registry)
       IN IF plugins = << >> THEN Plan("ok", plugins, << >>)
          ELSE IF reqs.exit # "" THEN Failed("registry", plugins)
          ELSE Only({IF resolved.exc # "" THEN Failed("resolve", plugins)
                     ELSE Plan("", plugins, resolved.resolutions)
                     : resolved \in {resolve(NewProvider, lib, registry, remote,
                                             reqs.requirements)}})

\* What the clone of a plugin's repository gives in one installation.
CloneTags == {"error", "error_partial", "tree", "tree_nosrc", "tree_badjson"}

GitClone(remote, slug, tag) ==
  IF tag = "error" THEN CloneError(NoDir)
  ELSE IF tag = "error_partial" THEN CloneError(Tree(TRUE, FALSE, "none", << >>))
  ELSE IF tag = "tree_nosrc"
       THEN Cloned(Tree(TRUE, FALSE, remote[slug].manifest, remote[slug].deps))
  ELSE IF tag = "tree_badjson" THEN Cloned(Tree(TRUE, remote[slug].src, "badjson", << >>))
  ELSE Cloned(Tree(TRUE, remote[slug].src, remote[slug].manifest, remote[slug].deps))

CaretBare(version) == << "^" >>

\* f"^{version}"
Caret(version) == << "^" >> \o version

\* cmd_install: the installation of the resolved plugins.  run is [project,
\* reports, exit]; reports[slug] is what install_plugin reported for the slug.
RECURSIVE InstallLoop(_, _, _, _, _, _, _)
InstallLoop(run, registry, remote, plugins, resolutions, clones, rm) ==
  IF resolutions = << >> THEN [run EXCEPT !.exit = "ok"]
  ELSE LET slug == Head(resolutions).slug
           version == Head(resolutions).version
           rest == Tail(resolutions)
       IN IF slug \notin DOMAIN registry \/ "repo" \notin registry[slug].keys
          THEN InstallLoop(run, registry, remote, plugins, rest, clones, rm)
          ELSE LET installed == install_plugin(run.project.dirs, slug,
                                               GitClone(remote, slug, clones[slug]), rm)
                   plugin_manifest == get_plugin_manifest(installed.dirs, slug)
                   dependencies == IF plugin_manifest.some THEN plugin_manifest.deps
                                   ELSE << >>
                   is_transitive == slug \notin Keys(plugins)
                   version_spec == IF Get(plugins, slug) # version THEN Caret(version)
                                   ELSE Get(plugins, slug)
               IN IF installed.raised
                  THEN [project |-> [run.project EXCEPT !.dirs = installed.dirs],
                        reports |-> [run.reports EXCEPT ![slug] = "raised"],
                        exit |-> "crash"]
                  ELSE IF ~installed.ok
                  THEN InstallLoop([run EXCEPT !.project.dirs = installed.dirs,
                                               !.reports[slug] = "failure"],
                                   registry, remote, plugins, rest, clones, rm)
                  ELSE IF plugin_manifest.raised
                  THEN [project |-> [run.project EXCEPT !.dirs = installed.dirs],
                        reports |-> [run.reports EXCEPT ![slug] = "success"],
                        exit |-> "crash"]
                  ELSE InstallLoop(
                         [project |->
                            Project(installed.dirs,
                                    IF slug \in Keys(plugins)
                                    THEN add_dependency(run.project.manifest, slug,
                                                        version_spec)
                                    ELSE run.project.manifest,
                                    update_lockfile_plugin(
                                      run.project.lockfile, slug, version, "repo",
                                      get_plugin_commit(installed.dirs, slug),
                                      dependencies, is_transitive)),
                          reports |-> [run.reports EXCEPT ![slug] = "success"],
                          exit |-> ""],
                         registry, remote, plugins, rest, clones, rm)

NoReports == [slug \in Slugs |-> "none"]

InstallResolvedAnyway(project, registry, remote, plan, clones, rm) ==
  InstallLoop([project |-> project, reports |-> NoReports, exit |-> ""],
              registry, remote, plan.plugins, plan.resolutions, clones, rm)

\* cmd_install from its plan on.
InstallResolved(project, registry, remote, plan, clones, rm) ==
  IF plan.exit # "" THEN [project |-> project, reports |-> NoReports, exit |-> plan.exit]
  ELSE InstallLoop([project |-> project, reports |-> NoReports, exit |-> ""],
                   registry, remote, plan.plugins, plan.resolutions, clones, rm)

(***************************************************************************)
(* The state.  lib, registry and remote are the environment: the release   *)
(* of the resolution engine, the registry document and the repositories.   *)
(* provider is the state of the PluginProvider of one DependencyResolver   *)
(* and lastCall the last call of resolve on it.  now is the clock, files   *)
(* the cache directory of the RegistryClient and lastFetch its last        *)
(* fetch_registry; storedAt is the time at which what the cache file      *)
(* holds was written, that is the time of the request that gave it.  dirs, *)
(* manifest and lockfile are the project directory and lastCommand the     *)
(* last command run in it.  writing is a write of one                      *)
(* of the program's files, followed statement by statement, and lastMethod *)
(* the last call of a method of a PluginProvider made on its own.          *)
(***************************************************************************)
VARIABLES lib, registry, remote, provider, lastCall, now, files, lastFetch, storedAt,
          dirs, manifest, lockfile, lastCommand, writing, lastMethod

vars == << lib, registry, remote, provider, lastCall, now, files, lastFetch, storedAt,
           dirs, manifest, lockfile, lastCommand, writing, lastMethod >>

environment == << lib, registry, remote >>

resolverVars == << provider, lastCall >>

clientVars == << now, files, lastFetch, storedAt >>

projectVars == << dirs, manifest, lockfile, lastCommand >>

writerVars == << writing >>

methodVars == << lastMethod >>

NoCall == [made |-> FALSE, reused |-> FALSE, requirements |-> << >>, exc |-> "",
           resolutions |-> << >>]

NoFiles == [cache |-> CacheFile("absent", ""), timestamp |-> TimestampFile("absent", 0)]

NoFetch == [made |-> FALSE, force_refresh |-> FALSE, before |-> NoFiles, at |-> 0,
            net |-> RequestException, io |-> "ok", network |-> FALSE,
            exc |-> "", data |-> ""]

NoCommand == [kind |-> "", slug |-> << >>, exit |-> "", cause |-> "", reports |-> NoReports]

\* A resolver not used yet, a client without cache, an empty project.
NewResolverState == provider = NewProvider /\ lastCall = NoCall

NewClientState == now = 0 /\ files = NoFiles /\ lastFetch = NoFetch /\ storedAt = 0

NewProjectState ==
  /\ dirs = [slug \in Slugs |-> NoDir]
  /\ manifest = << >>
  /\ lockfile = EmptyMap
  /\ lastCommand = NoCommand

\* No write under way, no method called on its own.
NoWrite == [pc |-> "idle", file |-> "", document |-> "", previous |-> CacheFile("absent", ""),
            content |-> CacheFile("absent", ""), interrupted |-> FALSE]

NoMethod == [method |-> ""]

NewWriterState == writing = NoWrite

NewMethodState == lastMethod = NoMethod

\* DependencyResolver.__init__
NewResolver ==
  /\ provider' = NewProvider
  /\ lastCall' = NoCall
  /\ UNCHANGED << environment, clientVars, projectVars, writerVars, methodVars >>

\* DependencyResolver.resolve(requirements)
Resolve ==
  \E requirements \in Requests :
    \E r \in {resolve([provider EXCEPT !.clones = EmptyMap], lib, registry, remote,
                     requirements)} :
       /\ provider' = r.p
       /\ lastCall' = [made |-> TRUE,
                       reused |-> provider.requirement_specs # EmptyMap,
                       requirements |-> requirements, exc |-> r.exc,
                       resolutions |-> r.resolutions]
       /\ UNCHANGED << environment, clientVars, projectVars, writerVars, methodVars >>

InitResolve ==
  /\ lib \in LibVersions
  /\ \E w \in Worlds : registry = RegistryOf(w) /\ remote = RemoteOf(w)
  /\ NewResolverState
  /\ NewClientState
  /\ NewProjectState
  /\ NewWriterState
  /\ NewMethodState

NextResolve == NewResolver \/ Resolve

SpecResolve == InitResolve /\ [][NextResolve]_vars

(***************************************************************************)
(* The registry client: fetches, and the passing of time in steps of half  *)
(* the freshness window.                                                   *)
(***************************************************************************)
MaxTicks == 3

TickStep == CACHE_DURATION \div 2

\* RegistryClient.fetch_registry(force_refresh)
Fetch ==
  \E force_refresh \in BOOLEAN, net \in NetOutcomes, io \in WriteOutcomes :
    \E r \in {fetch_registry(files, now, force_refresh, net, io)} :
       /\ files' = r.files
       /\ storedAt' = IF r.network /\ net.ok /\ CacheRewritten(io) THEN now ELSE storedAt
       /\ lastFetch' = [made |-> TRUE, force_refresh |-> force_refresh,
                        before |-> files, at |-> now,
                        net |-> IF r.network THEN net ELSE RequestException,
                        io |-> IF r.network /\ net.ok THEN io ELSE "ok",
                        network |-> r.network, exc |-> r.exc, data |-> r.data]
       /\ UNCHANGED << now, environment, resolverVars, projectVars, writerVars,
                       methodVars >>

Tick ==
  /\ now < MaxTicks * TickStep
  /\ now' = now + TickStep
  /\ UNCHANGED << files, lastFetch, storedAt, environment, resolverVars, projectVars,
                writerVars, methodVars >>

\* The cache directory a client finds: files of earlier runs, whole or not.
FoundFiles ==
  {[cache |-> c, timestamp |-> t] :
     c \in {CacheFile("absent", ""), CacheFile("undecodable", ""),
           CacheFile("corrupt", "")}
           \cup {CacheFile("json", d) : d \in RegistryDocs},
     t \in {TimestampFile("absent", 0), TimestampFile("garbage", 0),
            TimestampFile("float", 0)}}

IdleWorld == World("inline", Slugs, << >>, << >>)

IdleEnvironment ==
  lib = "1.1" /\ registry = RegistryOf(IdleWorld) /\ remote = RemoteOf(IdleWorld)

InitClient ==
  /\ now = 0
  /\ files \in FoundFiles
  /\ lastFetch = NoFetch
  /\ storedAt = 0
  /\ IdleEnvironment
  /\ NewResolverState
  /\ NewProjectState
  /\ NewWriterState
  /\ NewMethodState

NextClient == Fetch \/ Tick

SpecClient == InitClient /\ [][NextClient]_vars

(***************************************************************************)
(* The project: install and remove commands.                               *)
(***************************************************************************)
\* What an install command names: a slug, or a slug with a range.
PluginSpecs == Slugs \cup {slug \o << "@" >> \o RangeCaret100 : slug \in Slugs}

\* Install commands that pin a version: SlugA with the version the registry
\* publishes for it, beside SlugB with and without a range and the
\* unpublished SlugC.
PinnedSpecs ==
  {SlugA \o << "@" >> \o Published(SlugA), SlugB, SlugB \o << "@" >> \o RangeCaret100, SlugC}

\* The bound on the plugins one install command names.
MaxArgs == 1

\* The command lines of install: at most MaxArgs plugins, none named twice.
ArgListsOf(specs) ==
  {args \in UNION {[1..k -> specs] : k \in 0..MaxArgs} :
     \A i, j \in 1..Len(args) :
       i < j => SlugRank(Split1(args[i], "@")[1]) < SlugRank(Split1(args[j], "@")[1])}

ArgLists == ArgListsOf(PluginSpecs)

\* cmd_install(args), args one of the given command lines.
CmdInstallOf(lists) ==
  \E args \in lists :
    \E fetched \in BOOLEAN :
       \E plan \in {InstallPlan(manifest, lib, registry, remote, args, fetched)} :
         \E rm \in RmOutcomes :
           \E clones \in [Keys(plan.resolutions) -> CloneTags] :
             \E done \in {InstallResolved(Project(dirs, manifest, lockfile), registry,
                                          remote, plan, clones, rm)} :
                 /\ dirs' = done.project.dirs
                 /\ manifest' = done.project.manifest
                 /\ lockfile' = done.project.lockfile
                 /\ lastCommand' = [kind |-> "install", slug |-> << >>,
                                    exit |-> done.exit, cause |-> plan.cause,
                                    reports |-> done.reports]
                 /\ UNCHANGED << environment, resolverVars, clientVars, writerVars, methodVars >>

CmdInstall == CmdInstallOf(ArgLists)

CmdInstallPinned == CmdInstallOf(ArgListsOf(PinnedSpecs))

\* cmd_remove(args)
CmdRemove ==
  \E plugin_slug \in Slugs, rm \in RmOutcomes :
    \E done \in {cmd_remove(Project(dirs, manifest, lockfile), plugin_slug, rm)} :
       /\ dirs' = done.project.dirs
       /\ manifest' = done.project.manifest
       /\ lockfile' = done.project.lockfile
       /\ lastCommand' = [kind |-> "remove", slug |-> plugin_slug, exit |-> done.exit,
                          cause |-> "", reports |-> NoReports]
       /\ UNCHANGED << environment, resolverVars, clientVars, writerVars, methodVars >>

\* The worlds of the project commands: SlugA and SlugB are published and
\* SlugC is not, the registry leaves the dependencies to the manifests of the
\* repositories, and no declared range excludes a published version.
ProjectWorlds ==
  {w \in Worlds :
     /\ w.source = "manifest"
     /\ w.published = Slugs \ {SlugC}
     /\ \A slug \in Slugs : \A i \in 1..Len(w.deps[slug]) :
          w.deps[slug][i].spec = RangeStar /\ w.deps[slug][i].slug # SlugC}

InitProject ==
  /\ lib \in LibVersions
  /\ \E w \in ProjectWorlds : registry = RegistryOf(w) /\ remote = RemoteOf(w)
  /\ NewResolverState
  /\ NewClientState
  /\ NewProjectState
  /\ NewWriterState
  /\ NewMethodState

NextProject == CmdInstall \/ CmdRemove

SpecProject == InitProject /\ [][NextProject]_vars

NextPinned == CmdInstallPinned \/ CmdRemove

SpecPinned == InitProject /\ [][NextPinned]_vars

(***************************************************************************)
(* A write of the manifest, the lockfile or the registry cache, followed   *)
(* statement by statement: open(path, "w") empties the file, json.dump     *)
(* writes the text of the document piece by piece, and leaving the with    *)
(* block closes the file with the whole text in it.  The process can be    *)
(* stopped between any two statements; the file keeps what it holds then.  *)
(* A file that is empty or holds the first part of a text does not parse.  *)
(***************************************************************************)
WrittenFiles == {"manifest", "lockfile", "cache"}

Documents == {"document-1", "document-2"}

FoundContents == {CacheFile("absent", "")} \cup {CacheFile("json", d) : d \in Documents}

\* write_manifest(manifest), write_lockfile(lockfile), _write_cache(data): called.
BeginWrite ==
  /\ writing.pc \in {"idle", "stopped"}
  /\ \E document \in Documents :
       writing' = [writing EXCEPT !.pc = "open", !.document = document,
                                  !.previous = writing.content,
                                  !.interrupted = FALSE]
  /\ UNCHANGED << environment, resolverVars, clientVars, projectVars, methodVars >>

\* with open(path, "w", encoding="utf-8") as f:
OpenForWriting ==
  /\ writing.pc = "open"
  /\ writing' = [writing EXCEPT !.pc = "dump", !.content = CacheFile("corrupt", "")]
  /\ UNCHANGED << environment, resolverVars, clientVars, projectVars, methodVars >>

\* json.dump(document, f, indent=2): the text so far, not the whole of it.
Dump ==
  /\ writing.pc = "dump"
  /\ writing' = [writing EXCEPT !.pc = "close", !.content = CacheFile("corrupt", "")]
  /\ UNCHANGED << environment, resolverVars, clientVars, projectVars, methodVars >>

\* The end of the with block: the file is closed, the whole text in it.
CloseWritten ==
  /\ writing.pc = "close"
  /\ writing' = [writing EXCEPT !.pc = "idle",
                                !.content = CacheFile("json", writing.document)]
  /\ UNCHANGED << environment, resolverVars, clientVars, projectVars, methodVars >>

\* The process is stopped in the middle of the write.
Interrupt ==
  /\ writing.pc \in {"open", "dump", "close"}
  /\ writing' = [writing EXCEPT !.pc = "stopped", !.interrupted = TRUE]
  /\ UNCHANGED << environment, resolverVars, clientVars, projectVars, methodVars >>

InitWrite ==
  /\ writing \in {[NoWrite EXCEPT !.file = f, !.previous = c, !.content = c] :
                    f \in WrittenFiles, c \in FoundContents}
  /\ IdleEnvironment
  /\ NewResolverState
  /\ NewClientState
  /\ NewProjectState
  /\ NewMethodState

NextWrite == BeginWrite \/ OpenForWriting \/ Dump \/ CloseWritten \/ Interrupt

SpecWrite == InitWrite /\ [][NextWrite]_vars

(***************************************************************************)
(* The range functions called on their own: _satisfies_version,            *)
(* is_satisfied_by and find_matches on every version X.Y.Z with components *)
(* among Components, and every range string made of an operator and such a *)
(* version, the wildcards, and strings that are none of these forms.       *)
(* A range is the record [form, op, base, text]: text is the string the    *)
(* code receives, op and base the operator and the triple it was written   *)
(* from.                                                                   *)
(***************************************************************************)
Components == {0, 1, 2, 10}

Triples == Components \X Components \X Components

\* str(n)
RECURSIVE Decimal(_)
Decimal(n) ==
  (IF n >= 10 THEN Decimal(n \div 10) ELSE << >>)
    \o << CHOOSE c \in Digits : DigitVal(c) = n % 10 >>

\* f"{major}.{minor}.{patch}"
FormatVersion(t) == Decimal(t[1]) \o << "." >> \o Decimal(t[2]) \o << "." >> \o Decimal(t[3])

RangeOps == {<< >>, << "=" >>, << ">" >>, << ">", "=" >>, << "<" >>, << "<", "=" >>,
             << "^" >>, << "~" >>}

WellFormedRanges ==
  {[form |-> "wildcard", op |-> << >>, base |-> << 0, 0, 0 >>, text |-> t] :
     t \in {<< >>, << "*" >>}}
  \cup {[form |-> "version", op |-> op, base |-> b, text |-> op \o FormatVersion(b)] :
          op \in RangeOps, b \in Triples}

\* "^1.0", "1.0", "latest", ">=", "=>1.0.0", "1.0.0.0", "^ 1.0.0", ">= 1.0.0",
\* "1.0.0 "
MalformedTexts ==
  {<< "^", "1", ".", "0" >>, << "1", ".", "0" >>, << "l", "a", "t", "e", "s", "t" >>,
   << ">", "=" >>, << "=", ">", "1", ".", "0", ".", "0" >>,
   << "1", ".", "0", ".", "0", ".", "0" >>, << "^", " ", "1", ".", "0", ".", "0" >>,
   << ">", "=", " ", "1", ".", "0", ".", "0" >>, << "1", ".", "0", ".", "0", " " >>}

MalformedRanges ==
  {[form |-> "malformed", op |-> << >>, base |-> << 0, 0, 0 >>, text |-> t] :
     t \in MalformedTexts}

RangeInputs == WellFormedRanges \cup MalformedRanges

\* The calls to make on the versions and the slugs given: the method, the
\* version or the slug, and the range.
\* For find_matches, earlier is the ranges of the requirements the slug has
\* already, and excluded says whether its published candidate is among the
\* incompatibilities passed.
MethodInputs(versions, slugs) ==
  {[method |-> "_satisfies_version", called |-> FALSE, version |-> v, slug |-> << >>,
    range |-> r, earlier |-> << >>, excluded |-> FALSE, result |-> << >>,
    exc |-> ""] : v \in versions, r \in RangeInputs}
  \cup {[method |-> "is_satisfied_by", called |-> FALSE, version |-> << >>,
         slug |-> slug, range |-> r, earlier |-> << >>, excluded |-> FALSE,
         result |-> << >>, exc |-> ""] : slug \in slugs, r \in RangeInputs}
  \cup {[method |-> "find_matches", called |-> FALSE, version |-> << >>,
         slug |-> slug, range |-> r, earlier |-> e, excluded |-> x,
         result |-> << >>, exc |-> ""] :
          slug \in slugs, r \in RangeInputs,
          e \in {<< >>, << RangeCaret100 >>, << RangeGe200 >>}, x \in BOOLEAN}

\* provider._satisfies_version(semver.Version.parse(version), spec)
SatisfiesVersion ==
  /\ lastMethod.method = "_satisfies_version" /\ ~lastMethod.called
  /\ lastMethod' =
       [lastMethod EXCEPT
          !.called = TRUE,
          !.result = satisfies_version(VersionParse(FormatVersion(lastMethod.version)),
                                       lastMethod.range.text)]
  /\ UNCHANGED << environment, resolverVars, clientVars, projectVars, writerVars >>

\* provider.is_satisfied_by(Requirement(slug, spec), f"{slug}@{version}"), the
\* version the registry gives for the slug.
IsSatisfiedBy ==
  /\ lastMethod.method = "is_satisfied_by" /\ ~lastMethod.called
  /\ lastMethod' =
       [lastMethod EXCEPT
          !.called = TRUE,
          !.result = is_satisfied_by(provider,
                       Requirement(lastMethod.slug, lastMethod.range.text),
                       CandidateStr(lastMethod.slug, registry[lastMethod.slug].version))]
  /\ UNCHANGED << environment, resolverVars, clientVars, projectVars, writerVars >>

\* The requirements of a find_matches call: those the slug has already, then
\* the new one.
RequirementsOf(m) ==
  [i \in 1..Len(m.earlier) |-> Requirement(m.slug, m.earlier[i])]
    \o << Requirement(m.slug, m.range.text) >>

\* provider.identify(requirement) for each requirement of the slug, in order
RECURSIVE IdentifyEach(_, _)
IdentifyEach(p, requirements) ==
  IF requirements = << >> THEN p
  ELSE IdentifyEach(identify(p, Head(requirements)).p, Tail(requirements))

\* provider.identify(requirement) as each requirement of the slug came up, then
\* provider.find_matches(slug, requirements, incompatibilities) as the engine
\* calls it: both arguments are mappings from the slug to a list.
FindMatches ==
  /\ lastMethod.method = "find_matches" /\ ~lastMethod.called
  /\ \E p \in {IdentifyEach(provider, RequirementsOf(lastMethod))} :
       /\ provider' = p
       /\ lastMethod' =
            [lastMethod EXCEPT
               !.called = TRUE,
               !.result =
                  find_matches(p, registry, lastMethod.slug,
                    Put(EmptyMap, lastMethod.slug, RequirementsOf(lastMethod)),
                    Put(EmptyMap, lastMethod.slug,
                        IF lastMethod.excluded
                        THEN << CandidateStr(lastMethod.slug,
                                             registry[lastMethod.slug].version) >>
                        ELSE << >>))]
  /\ UNCHANGED << environment, lastCall, clientVars, projectVars, writerVars >>

\* The registry of two plugins, the first depending on the second in the
\* range spec, and the request for the first at its exact version.
ScenarioRegistry(spec) ==
  [s \in {SlugA, SlugB} |->
     [keys |-> {"version", "repo", "dependencies"},
      version |-> Published(s),
      deps |-> IF s = SlugA THEN << Item(SlugB, spec) >> ELSE << >>]]

ScenarioRanges == {<< "^", "1", ".", "0" >>, RangeCaret100}

ScenarioInputs ==
  {[method |-> "resolve", called |-> FALSE, version |-> << >>, slug |-> SlugA,
    range |-> r, earlier |-> << >>, excluded |-> FALSE, result |-> << >>,
    exc |-> ""] : r \in {w \in WellFormedRanges : w.text = Published(SlugA)}}

\* DependencyResolver(registry).resolve({slug: spec})
ResolveRequest ==
  /\ lastMethod.method = "resolve" /\ ~lastMethod.called
  /\ \E r \in {resolve(provider, lib, registry, remote,
                        << Item(lastMethod.slug, lastMethod.range.text) >>)} :
       /\ provider' = r.p
       /\ lastMethod' = [lastMethod EXCEPT !.called = TRUE, !.result = r.resolutions,
                                           !.exc = r.exc]
  /\ UNCHANGED << environment, lastCall, clientVars, projectVars, writerVars >>

InitRanges ==
  /\ \/ lastMethod \in MethodInputs(Triples, Slugs) /\ IdleEnvironment
     \/ /\ lastMethod \in ScenarioInputs
        /\ lib \in LibVersions
        /\ registry \in {ScenarioRegistry(spec) : spec \in ScenarioRanges}
        /\ remote = RemoteOf(IdleWorld)
  /\ NewResolverState
  /\ NewClientState
  /\ NewProjectState
  /\ NewWriterState

NextRanges == SatisfiesVersion \/ IsSatisfiedBy \/ FindMatches \/ ResolveRequest

SpecRanges == InitRanges /\ [][NextRanges]_vars

(***************************************************************************)
(* get_dependencies called on its own, several times on one provider, and  *)
(* resolve on the same registries.  SlugA is published at 1.0.0 and        *)
(* declares some of SlugB and the host; its registry entry carries the     *)
(* declaration inline or not, and has a repository or not.  The clone of   *)
(* the repository succeeds or fails, and its meshtastic.json is absent,    *)
(* not JSON, not UTF-8, or the declaration.                                *)
(***************************************************************************)
MaxCalls == 3

DepsDeclared == Dicts({SlugB, Host}, {RangeStar}, 2)

DepsRegistry(keys, deps) ==
  [s \in {SlugA, SlugB} |->
     IF s = SlugA
     THEN [keys |-> keys, version |-> Published(s),
           deps |-> IF "dependencies" \in keys THEN deps ELSE << >>]
     ELSE [keys |-> {"version", "repo", "dependencies"}, version |-> Published(s),
           deps |-> << >>]]

DepsRemote(clone, meshtastic_json, deps) ==
  [s \in Slugs |->
     IF s = SlugA
     THEN [clone |-> clone, src |-> TRUE, manifest |-> meshtastic_json, deps |-> deps]
     ELSE [clone |-> TRUE, src |-> TRUE, manifest |-> "json", deps |-> << >>]]

DepsCandidates == {CandidateStr(s, Published(s)) : s \in {SlugA, SlugB}}

DepsInputs ==
  {[method |-> "get_dependencies", calls |-> 0, candidate |-> << >>,
    again |-> FALSE, clones |-> 0, result |-> << >>, exc |-> "", first |-> EmptyMap]}
  \cup {[method |-> "resolve", called |-> FALSE, version |-> << >>, slug |-> SlugA,
         range |-> r, earlier |-> << >>, excluded |-> FALSE, result |-> << >>,
         exc |-> ""] : r \in {w \in WellFormedRanges : w.text = Published(SlugA)}}

\* len of the clones made so far for a cache key
ClonesOf(p, cache_key) == IF cache_key \in DOMAIN p.clones THEN p.clones[cache_key] ELSE 0

\* provider.get_dependencies(candidate); again says whether the candidate was
\* asked for before, clones counts the git clones this call ran, and first
\* keeps what the first call for each candidate gave.
GetDependencies ==
  /\ lastMethod.method = "get_dependencies" /\ lastMethod.calls < MaxCalls
  /\ \E candidate \in DepsCandidates :
       \E r \in {get_dependencies(provider, registry, remote, candidate)} :
          /\ provider' = r.p
          /\ lastMethod' =
               [lastMethod EXCEPT
                  !.calls = @ + 1,
                  !.candidate = candidate,
                  !.again = candidate \in DOMAIN lastMethod.first,
                  !.clones = ClonesOf(r.p, candidate) - ClonesOf(provider, candidate),
                  !.result = r.deps,
                  !.exc = r.exc,
                  !.first = IF candidate \in DOMAIN @ THEN @
                            ELSE Put(@, candidate, [result |-> r.deps, exc |-> r.exc])]
  /\ UNCHANGED << environment, lastCall, clientVars, projectVars, writerVars >>

InitDeps ==
  /\ lastMethod \in DepsInputs
  /\ lib = "1.1"
  /\ \E keys \in {{"version"}, {"version", "repo"}, {"version", "repo", "dependencies"}} :
       \E deps \in DepsDeclared :
         /\ registry = DepsRegistry(keys, deps)
         /\ \E clone \in BOOLEAN :
              \E meshtastic_json \in {"none", "badjson", "undecodable", "json"} :
                 remote = DepsRemote(clone, meshtastic_json, deps)
  /\ NewResolverState
  /\ NewClientState
  /\ NewProjectState
  /\ NewWriterState

NextDeps == GetDependencies \/ ResolveRequest

SpecDeps == InitDeps /\ [][NextDeps]_vars

(***************************************************************************)
(* Resolver.resolve followed round by round: the root state, then one      *)
(* round per step while the resolution is not done and rounds are left,    *)
(* then the result or the exception.  lastMethod holds the position of the *)
(* call: run is the state of the resolution, index the rounds made.        *)
(***************************************************************************)
RoundsUnbounded(index) == TRUE

\* for round_index in range(max_rounds): another round is left
RoundsLeft(index) == index < MaxRounds

NoRun == [p |-> NewProvider, exc |-> "", done |-> FALSE, states |-> << >>]

RoundsInputs ==
  {[method |-> "rounds", requirements |-> requirements, started |-> FALSE,
    finished |-> FALSE, index |-> 0, run |-> NoRun, exc |-> "", result |-> << >>] :
     requirements \in Requests}

\* state = State(mapping={}, criteria={}, backtrack_causes=[]); the root
\* requirements are added; self._push_new_state()
BeginRounds ==
  /\ lastMethod.method = "rounds" /\ ~lastMethod.started
  /\ \E root \in {AddAll(provider, registry, [keys |-> << >>, criteria |-> EmptyMap],
                         ReqList(lastMethod.requirements), NoParent)} :
       /\ provider' = root.p
       /\ lastMethod' =
         [lastMethod EXCEPT
            !.started = TRUE,
            !.finished = root.exc # "",
            !.exc = IF root.exc # "" THEN "ResolutionImpossible" ELSE "",
            !.run = [p |-> root.p, exc |-> "", done |-> FALSE,
                     states |-> IF root.exc # "" THEN << >>
                                ELSE << [mapping |-> << >>, keys |-> root.cr.keys,
                                         criteria |-> root.cr.criteria],
                                        [mapping |-> << >>, keys |-> root.cr.keys,
                                         criteria |-> root.cr.criteria] >>]]
  /\ UNCHANGED << environment, lastCall, clientVars, projectVars, writerVars >>

\* The call is inside the loop, and the loop goes on or is left.
InLoop == lastMethod.method = "rounds" /\ lastMethod.started /\ ~lastMethod.finished

LoopGoesOn == ~lastMethod.run.done /\ RoundsLeft(lastMethod.index)

\* One pass of the body of the loop over round_index.
RoundStep ==
  /\ InLoop /\ LoopGoesOn
  /\ \E r \in {round(lastMethod.run, lib, registry, remote)} :
       /\ provider' = r.p
       /\ lastMethod' = [lastMethod EXCEPT !.index = IF @ < MaxRounds THEN @ + 1 ELSE @,
                                           !.run = r]
  /\ UNCHANGED << environment, lastCall, clientVars, projectVars, writerVars >>

\* The loop is left: the result is built, the exception of the round is
\* raised, or ResolutionTooDeep when no round is left.
EndRounds ==
  /\ InLoop /\ ~LoopGoesOn
  /\ lastMethod' =
       [lastMethod EXCEPT
          !.finished = TRUE,
          !.exc = IF ~lastMethod.run.done THEN "ResolutionTooDeep"
                  ELSE lastMethod.run.exc,
          !.result = IF lastMethod.run.done /\ lastMethod.run.exc = ""
                     THEN Resolutions(build_result(Last(lastMethod.run.states)))
                     ELSE << >>]
  /\ UNCHANGED << environment, resolverVars, clientVars, projectVars, writerVars >>

InitRounds ==
  /\ lastMethod \in RoundsInputs
  /\ lib \in LibVersions
  /\ \E w \in Worlds : registry = RegistryOf(w) /\ remote = RemoteOf(w)
  /\ NewResolverState
  /\ NewClientState
  /\ NewProjectState
  /\ NewWriterState

NextRounds == BeginRounds \/ RoundStep \/ EndRounds

SpecRounds == InitRounds /\ [][NextRounds]_vars

\* The program: any of its operations, from any of the initial states.
(***************************************************************************)
(* The installer called again: install_plugin for one slug and version,    *)
(* over a plugins directory that may hold an earlier tree of the slug.     *)
(* lastMethod.calls records, per call, what git clone gave, how rmtree     *)
(* ended, what install_plugin reported and the tree it left.               *)
(***************************************************************************)
\* The bound on the install_plugin calls of one slug.
MaxInstalls == 2

\* What the directory of the slug holds before the first call: nothing, an
\* installed tree of another version, or a leftover without src.
FoundTrees ==
  {NoDir,
   Tree(TRUE, TRUE, "json", << Item(SlugC, RangeGe200) >>),
   Tree(TRUE, TRUE, "badjson", << >>),
   Tree(TRUE, FALSE, "none", << >>)}

InstallerInputs ==
  {[method |-> "install_plugin", slug |-> slug, found |-> found, calls |-> << >>] :
     slug \in Slugs, found \in FoundTrees}

\* installer.install_plugin(slug, repo_url, version, tag)
InstallPlugin ==
  /\ lastMethod.method = "install_plugin"
  /\ Len(lastMethod.calls) < MaxInstalls
  /\ \E tag \in CloneTags, rm \in RmOutcomes :
       \E installed \in {install_plugin(dirs, lastMethod.slug,
                                         GitClone(remote, lastMethod.slug, tag), rm)} :
          /\ dirs' = installed.dirs
          /\ lastMethod' = [lastMethod EXCEPT !.calls =
                              Append(@, [clone |-> tag, rm |-> rm, ok |-> installed.ok,
                                         raised |-> installed.raised,
                                         tree |-> installed.dirs[lastMethod.slug]])]
  /\ UNCHANGED << environment, resolverVars, clientVars, manifest, lockfile, lastCommand,
                  writerVars >>

InitInstaller ==
  /\ lastMethod \in InstallerInputs
  /\ lib = "1.1"
  /\ \E w \in ProjectWorlds : registry = RegistryOf(w) /\ remote = RemoteOf(w)
  /\ NewResolverState
  /\ NewClientState
  /\ dirs = [slug \in Slugs |-> IF slug = lastMethod.slug THEN lastMethod.found ELSE NoDir]
  /\ manifest = << >>
  /\ lockfile = EmptyMap
  /\ lastCommand = NoCommand
  /\ NewWriterState

NextInstaller == InstallPlugin

SpecInstaller == InitInstaller /\ [][NextInstaller]_vars

(***************************************************************************)
(* The manifest manager called method by method on the two documents of a  *)
(* project.  Each method reads its document, changes it and writes it      *)
(* back; lastMethod records the call.                                      *)
(***************************************************************************)
\* The lockfile entries update_lockfile_plugin is given.
LockEntries ==
  {[version |-> V100, repo |-> "repo", resolved |-> "HEAD",
    dependencies |-> << >>, transitive |-> transitive] : transitive \in BOOLEAN}

ManagerCall(method, slug) == [method |-> method, slug |-> slug]

\* manifest.add_dependency(plugin_slug, version_spec)
AddDependency ==
  /\ \E plugin_slug \in Slugs, version_spec \in {RangeStar, RangeCaret100} :
       /\ manifest' = add_dependency(manifest, plugin_slug, version_spec)
       /\ lastMethod' = ManagerCall("add_dependency", plugin_slug)
  /\ UNCHANGED << environment, resolverVars, clientVars, dirs, lockfile, lastCommand,
                  writerVars >>

\* manifest.remove_dependency(plugin_slug)
RemoveDependency ==
  /\ \E plugin_slug \in Slugs :
       /\ manifest' = remove_dependency(manifest, plugin_slug)
       /\ lastMethod' = ManagerCall("remove_dependency", plugin_slug)
  /\ UNCHANGED << environment, resolverVars, clientVars, dirs, lockfile, lastCommand,
                  writerVars >>

\* manifest.update_lockfile_plugin(plugin_slug, version, repo, resolved,
\* dependencies, transitive)
UpdateLockfilePlugin ==
  /\ \E plugin_slug \in Slugs, entry \in LockEntries :
       /\ lockfile' = update_lockfile_plugin(lockfile, plugin_slug, entry.version,
                                             entry.repo, entry.resolved,
                                             entry.dependencies, entry.transitive)
       /\ lastMethod' = ManagerCall("update_lockfile_plugin", plugin_slug)
  /\ UNCHANGED << environment, resolverVars, clientVars, dirs, manifest, lastCommand,
                  writerVars >>

\* manifest.remove_lockfile_plugin(plugin_slug)
RemoveLockfilePlugin ==
  /\ \E plugin_slug \in Slugs :
       /\ lockfile' = remove_lockfile_plugin(lockfile, plugin_slug)
       /\ lastMethod' = ManagerCall("remove_lockfile_plugin", plugin_slug)
  /\ UNCHANGED << environment, resolverVars, clientVars, dirs, manifest, lastCommand,
                  writerVars >>

InitManager ==
  /\ IdleEnvironment
  /\ NewResolverState
  /\ NewClientState
  /\ NewProjectState
  /\ NewWriterState
  /\ NewMethodState

NextManager ==
  AddDependency \/ RemoveDependency \/ UpdateLockfilePlugin \/ RemoveLockfilePlugin

SpecManager == InitManager /\ [][NextManager]_vars

Init ==
  \/ InitResolve \/ InitClient \/ InitProject \/ InitWrite \/ InitRanges \/ InitDeps
  \/ InitRounds \/ InitInstaller \/ InitManager

Next ==
  \/ NextResolve \/ NextClient \/ NextProject \/ NextWrite \/ NextRanges \/ NextDeps
  \/ NextRounds \/ NextInstaller \/ NextManager \/ NextPinned

Spec == Init /\ [][Next]_vars

(***************************************************************************)
(* The reference the resolver's answers are judged against: what the range *)
(* strings of the model mean, and the requirements the resolver can know.  *)
(***************************************************************************)
RefSatisfies(version, spec) ==
  \/ spec = RangeStar
  \/ spec = RangeCaret100 /\ version \in {V100, V120}
  \/ spec = RangeGe200 /\ version = V200

\* The dependencies of the published version of a slug, as the registry entry or
\* the repository gives them, the host firmware left out.
KnownDeps(slug) ==
  LET deps == IF slug \notin DOMAIN registry THEN << >>
              ELSE IF "dependencies" \in registry[slug].keys THEN registry[slug].deps
              ELSE IF remote[slug].clone /\ remote[slug].manifest = "json"
                   THEN remote[slug].deps
              ELSE << >>
  IN {deps[i] : i \in {j \in 1..Len(deps) : deps[j].slug # Host}}

\* The slugs reachable from the requested ones in at most n steps.
RECURSIVE Reachable(_, _)
Reachable(from, n) ==
  IF n = 0 THEN from
  ELSE Reachable(from \cup {d.slug : d \in UNION {KnownDeps(s) : s \in from}}, n - 1)

Requested == {lastCall.requirements[i] : i \in 1..Len(lastCall.requirements)}

ReachableSlugs == Reachable({r.slug : r \in Requested}, Cardinality(Slugs))

\* Every requirement that names a slug, requested or transitively discovered.
ReachableRequirements == Requested \cup UNION {KnownDeps(s) : s \in ReachableSlugs}

Assigned == {lastCall.resolutions[i] : i \in 1..Len(lastCall.resolutions)}

Returned == lastCall.made /\ lastCall.exc = ""

Satisfiable ==
  \A r \in ReachableRequirements :
    r.slug \in DOMAIN registry /\ RefSatisfies(Published(r.slug), r.spec)

\* C1: whenever resolve returns a mapping, the mapping assigns exactly one
\* version to every requested slug and to every slug a dependency of an assigned
\* candidate names, and the assigned version satisfies every such requirement.
C1_ResolutionConsistent ==
  Returned =>
    /\ \A i, j \in 1..Len(lastCall.resolutions) :
         lastCall.resolutions[i].slug = lastCall.resolutions[j].slug => i = j
    /\ \A r \in Requested \cup UNION {KnownDeps(m.slug) : m \in Assigned} :
         \E m \in Assigned : m.slug = r.slug /\ RefSatisfies(m.version, r.spec)

\* A call returned a mapping that holds a discovered dependency.
C1_Witness ==
  /\ Returned
  /\ \E m \in Assigned : KnownDeps(m.slug) # {}
  /\ Cardinality(Assigned) > Cardinality(Requested)

\* C2: when a reachable slug is absent from the registry, or its published
\* version fails a range that names it, resolve raises ResolutionImpossible.
C2_UnsatisfiableIsImpossible ==
  lastCall.made /\ ~Satisfiable => lastCall.exc = "ResolutionImpossible"

\* C3: when the requirement set is satisfiable, resolve returns a Resolution.
C3_SatisfiableReturns ==
  lastCall.made /\ Satisfiable => lastCall.exc = ""

\* C4: a call of resolve on a resolver that has resolved before gives what a
\* call on a new resolver gives for the same registry and requirements.
C4_Deterministic ==
  lastCall.made =>
    \A fresh \in {resolve(NewProvider, lib, registry, remote, lastCall.requirements)} :
       lastCall.exc = fresh.exc /\ lastCall.resolutions = fresh.resolutions

\* A second call on the same resolver, whose provider kept a spec and a
\* manifest of the first call, returned a mapping.
C4_Witness ==
  /\ Returned
  /\ lastCall.reused
  /\ lastCall.resolutions # << >>
  /\ \E s \in DOMAIN provider.requirement_specs : s \notin ReachableSlugs

(***************************************************************************)
(* The project claims.  What the lockfile records is read here from the    *)
(* entries themselves.                                                     *)
(***************************************************************************)
NamedByOthers(slug) ==
  \E other \in DOMAIN lockfile \ {slug} :
    \E i \in 1..Len(lockfile[other].dependencies) :
      lockfile[other].dependencies[i].slug = slug

HasSrc(slug) == dirs[slug].exists /\ dirs[slug].src

\* C5: a remove command for an installed slug that another lockfile entry
\* lists among its dependencies is rejected, and leaves the plugin
\* directories, the lockfile and the manifest as they were.
C5_RemovalRejected ==
  [][\A slug \in Slugs :
       (/\ lastCommand'.kind = "remove"
        /\ lastCommand'.slug = slug
        /\ HasSrc(slug)
        /\ NamedByOthers(slug))
       => (/\ lastCommand'.exit = "exit"
           /\ UNCHANGED << dirs, manifest, lockfile >>)]_vars

\* A remove command was rejected for an installed slug that an installed
\* plugin depends on.
C5_Witness ==
  /\ lastCommand.kind = "remove"
  /\ lastCommand.exit = "exit"
  /\ lastCommand.slug \in Slugs
  /\ HasSrc(lastCommand.slug)
  /\ NamedByOthers(lastCommand.slug)

\* C6: in every state install and remove commands reach from the empty
\* manifest and lockfile, so after every install command that completed, each
\* slug with a ManifestEntry has a LockEntry.
C6_ManifestWithinLockfile ==
  \A i \in 1..Len(manifest) : manifest[i].slug \in DOMAIN lockfile

\* An install command completed and left a direct entry and a transitive one.
C6_Witness ==
  /\ lastCommand.kind = "install"
  /\ lastCommand.exit = "ok"
  /\ manifest # << >>
  /\ \E slug \in DOMAIN lockfile :
       lockfile[slug].transitive /\ \A i \in 1..Len(manifest) : manifest[i].slug # slug

\* C7: when install_plugin reported success the directory of the slug exists
\* and holds src, and when it reported failure no directory of the slug is left.
C7_NoPartialInstall ==
  \A slug \in Slugs :
    /\ lastCommand.reports[slug] = "success" => dirs[slug].exists /\ dirs[slug].src
    /\ lastCommand.reports[slug] = "failure" => ~dirs[slug].exists

\* One command saw install_plugin succeed for a slug and fail for another.
C7_Witness ==
  \E s, t \in Slugs :
    /\ lastCommand.reports[s] = "success"
    /\ lastCommand.reports[t] = "failure"
    /\ dirs[s].exists

(***************************************************************************)
(* The registry client claims.  Whether the cache was fresh and readable   *)
(* when fetch_registry was called is read here from the files it found.    *)
(***************************************************************************)
FoundFresh ==
  /\ lastFetch.before.cache.state # "absent"
  /\ lastFetch.before.timestamp.state = "float"
  /\ lastFetch.at - lastFetch.before.timestamp.value < 3600

FoundReadable == lastFetch.before.cache.state = "json"

Raised == lastFetch.exc # ""

ReturnedCache == ~Raised /\ lastFetch.data = lastFetch.before.cache.data

NetworkFailed == lastFetch.made /\ lastFetch.network /\ ~lastFetch.net.ok

\* C8: when the network fetch fails, fetch_registry returns the readable cache
\* it found, stale or not, and raises only when it found none; it never returns
\* anything but a registry document.
C8_FallbackToCache ==
  /\ NetworkFailed => IF FoundReadable THEN ReturnedCache ELSE Raised
  /\ lastFetch.made /\ ~Raised => lastFetch.data \in RegistryDocs

\* The network failed and a stale cache was returned.
C8_Witness == NetworkFailed /\ FoundReadable /\ ~FoundFresh /\ ReturnedCache

\* C9: fetch_registry(force_refresh=False) returns the cache without a network
\* request when the cache is fresh (timestamp younger than one hour) and
\* readable, and attempts the network otherwise.
C9_CacheWhenValid ==
  lastFetch.made /\ ~lastFetch.force_refresh =>
    IF FoundFresh /\ FoundReadable THEN ~lastFetch.network /\ ReturnedCache
    ELSE lastFetch.network

\* C10: fetch_registry(force_refresh=True) always attempts the network, and
\* when the network answers it returns the fetched document, whether or not
\* the cache write succeeded.
C10_ForcedRefresh ==
  lastFetch.made /\ lastFetch.force_refresh =>
    /\ lastFetch.network
    /\ lastFetch.net.ok => ~Raised /\ lastFetch.data = lastFetch.net.data

\* A forced fetch over a fresh readable cache returned the fetched document
\* although the cache write failed.
C10_Witness ==
  /\ lastFetch.made /\ lastFetch.force_refresh
  /\ FoundFresh /\ FoundReadable
  /\ lastFetch.net.ok /\ lastFetch.io # "ok"
  /\ lastFetch.data = lastFetch.net.data
  /\ lastFetch.data # lastFetch.before.cache.data

\* The cache file fetch_registry found cannot be parsed: its bytes are not
\* UTF-8, or its text is not JSON.
FoundUnparsable == lastFetch.before.cache.state \in {"corrupt", "undecodable"}

\* C11: a fetch_registry call that finds an unparsable cache file raises only
\* when the network request failed, makes the request when the timestamp is
\* fresh and no refresh is forced, and returns the fetched document, never
\* the content of the cache file.
C11_CorruptIsMiss ==
  lastFetch.made /\ FoundUnparsable =>
    /\ Raised => NetworkFailed
    /\ ~lastFetch.force_refresh /\ FoundFresh => lastFetch.network
    /\ ~Raised => lastFetch.net.ok /\ lastFetch.data = lastFetch.net.data

\* C12: a write of the manifest, the lockfile or the registry cache that is
\* interrupted leaves the file with the whole of its previous content or the
\* whole of the new document.
C12_AtomicWrite ==
  writing.interrupted =>
    writing.content \in {writing.previous, CacheFile("json", writing.document)}

\* The reference for a range written from an operator and a triple: the
\* comparison of the triples, major first.
TripleLt(v, w) ==
  \/ v[1] < w[1]
  \/ v[1] = w[1] /\ v[2] < w[2]
  \/ v[1] = w[1] /\ v[2] = w[2] /\ v[3] < w[3]

RefMatches(v, r) ==
  IF r.form = "wildcard" THEN TRUE
  ELSE IF r.op \in {<< >>, << "=" >>} THEN v = r.base
  ELSE IF r.op = << ">" >> THEN TripleLt(r.base, v)
  ELSE IF r.op = << ">", "=" >> THEN ~TripleLt(v, r.base)
  ELSE IF r.op = << "<" >> THEN TripleLt(v, r.base)
  ELSE IF r.op = << "<", "=" >> THEN ~TripleLt(r.base, v)
  ELSE IF r.op = << "^" >>
       THEN ~TripleLt(v, r.base) /\ TripleLt(v, << r.base[1] + 1, 0, 0 >>)
  ELSE ~TripleLt(v, r.base) /\ TripleLt(v, << r.base[1], r.base[2] + 1, 0 >>)

SatisfiesCalled == lastMethod.method = "_satisfies_version" /\ lastMethod.called

\* C13: for every version and every well-formed range string,
\* _satisfies_version returns what the reference semantics of the range says:
\* the wildcards match always, an exact range matches the same triple, the
\* comparators compare the triples, ^X.Y.Z matches from X.Y.Z up to (X+1).0.0
\* excluded and ~X.Y.Z from X.Y.Z up to X.(Y+1).0 excluded.
C13_RangeSemantics ==
  SatisfiesCalled /\ lastMethod.range.form # "malformed" =>
    (lastMethod.result <=> RefMatches(lastMethod.version, lastMethod.range))

\* _satisfies_version((1, 10, 2), "~1.2.10") has returned False and the
\* reference says so: above the upper bound of a tilde range, inside the one of
\* the caret range on the same version.
C13_Witness ==
  /\ SatisfiesCalled
  /\ lastMethod.version = << 1, 10, 2 >>
  /\ lastMethod.range.op = << "~" >>
  /\ lastMethod.range.base = << 1, 2, 10 >>
  /\ lastMethod.range.text = << "~", "1", ".", "2", ".", "1", "0" >>
  /\ ~lastMethod.result

\* C14: a range string that is none of the valid forms never matches:
\* _satisfies_version and is_satisfied_by return False for it and find_matches
\* returns no candidate, none of them raising.
C14_MalformedNeverMatches ==
  lastMethod.method # "" /\ lastMethod.called /\ lastMethod.range.form = "malformed" =>
    /\ lastMethod.exc = ""
    /\ lastMethod.method \in {"_satisfies_version", "is_satisfied_by"} =>
         lastMethod.result = FALSE
    /\ lastMethod.method = "find_matches" => lastMethod.result = << >>

ResolveCalled == lastMethod.method = "resolve" /\ lastMethod.called

\* C15: with the registry holding a at 1.0.0 depending on b in the range
\* "^1.0" and b at 1.2.0 without dependencies, the request for a at 1.0.0
\* resolves to a at 1.0.0 and b at 1.2.0.
C15_CaretScenario ==
  ResolveCalled /\ registry = ScenarioRegistry(<< "^", "1", ".", "0" >>) =>
    /\ lastMethod.exc = ""
    /\ {lastMethod.result[i] : i \in 1..Len(lastMethod.result)}
         = {[slug |-> SlugA, version |-> V100], [slug |-> SlugB, version |-> V120]}

FindMatchesCalled == lastMethod.method = "find_matches" /\ lastMethod.called

\* C16: find_matches returns a candidate for a slug only if the candidate
\* satisfies every range the slug's requirements carry: the one of the new
\* requirement and those of the requirements it has already.
C16_EveryRange ==
  FindMatchesCalled =>
    \A i \in 1..Len(lastMethod.result) :
      \A j \in 1..Len(RequirementsOf(lastMethod)) :
        is_satisfied_by(NewProvider, RequirementsOf(lastMethod)[j], lastMethod.result[i])

\* C17: find_matches returns no candidate that is among the incompatibilities
\* it was passed for the slug.
C17_ExcludedNotReturned ==
  FindMatchesCalled /\ lastMethod.excluded =>
    \A i \in 1..Len(lastMethod.result) :
      lastMethod.result[i] # CandidateStr(lastMethod.slug, registry[lastMethod.slug].version)

GetDependenciesCalled == lastMethod.method = "get_dependencies" /\ lastMethod.calls > 0

\* What SlugA declares in the registries and repositories of SpecDeps.
DeclaredByA == remote[SlugA].deps

\* C18: get_dependencies never returns a Requirement for the host firmware,
\* whether it answers from its cache, from the dependencies of the registry
\* entry or from the manifest of a clone.
C18_HostFiltered ==
  GetDependenciesCalled =>
    \A i \in 1..Len(lastMethod.result) : lastMethod.result[i].identifier # Host

\* A plugin that declares the host and another plugin was asked for a second
\* time, the answer coming from the cache of the provider (no clone ran):
\* only the other plugin was returned.
C18_Witness ==
  /\ GetDependenciesCalled
  /\ lastMethod.candidate = CandidateStr(SlugA, V100)
  /\ lastMethod.candidate \in DOMAIN provider.manifest_cache
  /\ lastMethod.again /\ lastMethod.clones = 0
  /\ \E i \in 1..Len(DeclaredByA) : DeclaredByA[i].slug = Host
  /\ lastMethod.result = << Requirement(SlugB, RangeStar) >>

\* The discovery of SlugA's dependencies has to clone the repository, and the
\* clone fails or the manifest it brings cannot be read or parsed.
DiscoveryFails ==
  /\ registry[SlugA].keys = {"version", "repo"}
  /\ ~remote[SlugA].clone \/ remote[SlugA].manifest \in {"badjson", "undecodable"}

\* C19: when the clone or the reading or parsing of the manifest fails,
\* get_dependencies returns an empty list without raising, and the resolution
\* of the plugin goes on with the candidate as a leaf.
C19_FailuresDegrade ==
  DiscoveryFails =>
    /\ GetDependenciesCalled /\ lastMethod.candidate = CandidateStr(SlugA, V100) =>
         lastMethod.exc = "" /\ lastMethod.result = << >>
    /\ ResolveCalled =>
         /\ lastMethod.exc = ""
         /\ lastMethod.result = << [slug |-> SlugA, version |-> V100] >>

\* C20: after the first get_dependencies call for a candidate, a later call
\* for it on the same provider returns what the first call returned and runs
\* no git clone.
C20_CachedPerCandidate ==
  GetDependenciesCalled /\ lastMethod.again =>
    /\ lastMethod.clones = 0
    /\ lastMethod.result = lastMethod.first[lastMethod.candidate].result
    /\ lastMethod.exc = lastMethod.first[lastMethod.candidate].exc

RoundsFinished == lastMethod.method = "rounds" /\ lastMethod.finished

\* The steps a call of resolve can still take: the start, the rounds that are
\* left, the end.
RoundsRemaining ==
  IF ~lastMethod.started THEN MaxRounds + 2
  ELSE IF lastMethod.finished THEN 0
  ELSE MaxRounds + 1 - lastMethod.index

C22_TransitiveIffNotDirect ==
  \A slug \in DOMAIN lockfile :
    lockfile[slug].transitive <=> slug \notin Keys(manifest)

\* The entries of every slug but one are the same before and after a step.
OthersUnchanged(slug) ==
  \A other \in Slugs \ {slug} :
    /\ dirs'[other] = dirs[other]
    /\ other \in DOMAIN lockfile' <=> other \in DOMAIN lockfile
    /\ other \in DOMAIN lockfile => lockfile'[other] = lockfile[other]
    /\ other \in Keys(manifest') <=> other \in Keys(manifest)
    /\ other \in Keys(manifest) => Get(manifest', other) = Get(manifest, other)

RemoveIssued(slug) ==
  /\ lastCommand'.kind = "remove"
  /\ lastCommand'.slug = slug
  /\ HasSrc(slug)
  /\ ~NamedByOthers(slug)

Removed(slug) ==
  /\ lastCommand'.exit = "ok"
  /\ ~dirs'[slug].exists
  /\ slug \notin DOMAIN lockfile'
  /\ slug \notin Keys(manifest')
  /\ OthersUnchanged(slug)

\* C23 as stated: a remove command for an installed slug that no other lockfile
\* entry lists as a dependency succeeds: the directory is deleted, the lockfile
\* entry and the manifest entry of the slug are gone, and the entries of every
\* other slug are unchanged.
C23_RemovalSucceeds ==
  [][\A slug \in Slugs : RemoveIssued(slug) => Removed(slug)]_vars

\* C23, amended: a remove command for an installed slug that no other lockfile
\* entry lists as a dependency either succeeds as above, or, when deleting the
\* directory failed, exits with status 1 and leaves the manifest, the lockfile
\* and the directory with its src as they were.
C23_RemovalSucceedsOrReports ==
  [][\A slug \in Slugs :
       RemoveIssued(slug)
       => \/ Removed(slug)
          \/ /\ lastCommand'.exit = "exit"
             /\ HasSrc(slug)'
             /\ UNCHANGED << manifest, lockfile >>]_vars

\* A remove command deleted a direct dependency and left the entries of an
\* installed other plugin in place.
C23_Witness ==
  /\ lastCommand.kind = "remove"
  /\ lastCommand.exit = "ok"
  /\ lastCommand.slug \in Slugs
  /\ ~dirs[lastCommand.slug].exists
  /\ lastCommand.slug \notin DOMAIN lockfile
  /\ \E other \in DOMAIN lockfile : HasSrc(other) /\ other \in Keys(manifest)

\* C24: after any sequence of install and remove commands, installs that fail
\* included, every slug with a lockfile entry has its plugin directory, with
\* the src subdirectory in it.
C24_LockedIsInstalled ==
  \A slug \in DOMAIN lockfile : HasSrc(slug)

(***************************************************************************)
(* The installer claims.                                                   *)
(***************************************************************************)
InstallPluginCalls ==
  IF lastMethod.method = "install_plugin" THEN lastMethod.calls ELSE << >>

\* What install_plugin leaves of a clone when it returns: the cloned tree when
\* the clone succeeded and holds src, and nothing otherwise.
FreshTree(slug, tag) ==
  LET clone == GitClone(remote, slug, tag)
  IN IF ~clone.error /\ clone.tree.src THEN clone.tree ELSE NoDir

\* C25: two install_plugin calls in succession for one slug and version, for
\* which git clone gave the same, report the same and leave the same tree; and
\* the tree a call leaves is the clone of that call or nothing, whatever the
\* directory held before.
C25_InstallerIdempotent ==
  LET calls == InstallPluginCalls
  IN /\ \A i \in 1..Len(calls) :
          ~calls[i].raised
          => /\ calls[i].tree = FreshTree(lastMethod.slug, calls[i].clone)
             /\ calls[i].ok <=> calls[i].tree.exists
             /\ dirs[lastMethod.slug] = calls[Len(calls)].tree
     /\ \A i \in 1..Len(calls) - 1 :
          (/\ calls[i].clone = calls[i + 1].clone
           /\ ~calls[i].raised
           /\ ~calls[i + 1].raised)
          => /\ calls[i + 1].ok = calls[i].ok
             /\ calls[i + 1].tree = calls[i].tree

\* install_plugin succeeded twice in succession with the same clone, over a
\* directory that held another tree before the first call.
C25_Witness ==
  LET calls == InstallPluginCalls
  IN /\ Len(calls) = 2
     /\ calls[1].ok /\ calls[2].ok
     /\ calls[1].clone = calls[2].clone
     /\ lastMethod.found.exists
     /\ lastMethod.found # calls[2].tree
     /\ dirs[lastMethod.slug] = calls[1].tree

(***************************************************************************)
(* The manifest manager claims.                                            *)
(***************************************************************************)
ManifestEntriesKept(slug) ==
  \A other \in Slugs \ {slug} :
    /\ other \in Keys(manifest') <=> other \in Keys(manifest)
    /\ other \in Keys(manifest) => Get(manifest', other) = Get(manifest, other)

LockEntriesKept(slug) ==
  \A other \in Slugs \ {slug} :
    /\ other \in DOMAIN lockfile' <=> other \in DOMAIN lockfile
    /\ other \in DOMAIN lockfile => lockfile'[other] = lockfile[other]

\* C26: add_dependency and remove_dependency leave the lockfile and the
\* manifest entries of every other slug as they were, and set or delete the
\* manifest entry of the slug; update_lockfile_plugin and remove_lockfile_plugin
\* leave the manifest and the lockfile entries of every other slug as they
\* were, and set or delete the lockfile entry of the slug.
C26_OnlyTheSlug ==
  [][\A slug \in Slugs :
       /\ lastMethod' = ManagerCall("add_dependency", slug)
          => slug \in Keys(manifest') /\ ManifestEntriesKept(slug) /\ lockfile' = lockfile
       /\ lastMethod' = ManagerCall("remove_dependency", slug)
          => slug \notin Keys(manifest') /\ ManifestEntriesKept(slug) /\ lockfile' = lockfile
       /\ lastMethod' = ManagerCall("update_lockfile_plugin", slug)
          => slug \in DOMAIN lockfile' /\ LockEntriesKept(slug) /\ manifest' = manifest
       /\ lastMethod' = ManagerCall("remove_lockfile_plugin", slug)
          => slug \notin DOMAIN lockfile' /\ LockEntriesKept(slug) /\ manifest' = manifest]_vars

\* A manifest entry was replaced while the manifest and the lockfile held
\* the entries of the two other slugs.
C26_Witness ==
  /\ lastMethod.method = "add_dependency"
  /\ Keys(manifest) = Slugs
  /\ DOMAIN lockfile = Slugs \ {lastMethod.slug}
  /\ Len(manifest) = 3
  /\ manifest[1].slug = lastMethod.slug

\* C27: an install command in which the registry had no version for a plugin
\* requested without one, or in which the resolution raised, exits with
\* status 1 and leaves the manifest, the lockfile and the plugin directories
\* as they were.
C27_FailedInstallChangesNothing ==
  [][(lastCommand'.kind = "install" /\ lastCommand'.cause \in {"registry", "resolve"})
     => (lastCommand'.exit = "exit" /\ UNCHANGED << dirs, manifest, lockfile >>)]_vars

\* An install command failed to resolve in a project with an installed plugin.
C27_Witness ==
  /\ lastCommand.kind = "install"
  /\ lastCommand.cause = "resolve"
  /\ lastCommand.exit = "exit"
  /\ \E slug \in DOMAIN lockfile : HasSrc(slug) /\ slug \in Keys(manifest)

\* An install command found no version in the registry for a plugin requested
\* without one, in a project with an installed plugin.
C27_WitnessRegistry ==
  /\ lastCommand.kind = "install"
  /\ lastCommand.cause = "registry"
  /\ lastCommand.exit = "exit"
  /\ lockfile # EmptyMap

\* C28: after any install command, runs in which the clone of a plugin fails
\* included, the lockfile is dependency-closed: every slug an entry records
\* among its dependencies, the host firmware aside, has an entry of its own.
C28_LockfileClosed ==
  lastCommand.kind = "install"
  => \A slug \in DOMAIN lockfile :
       \A i \in 1..Len(lockfile[slug].dependencies) :
         lockfile[slug].dependencies[i].slug \in DOMAIN lockfile \cup {Host}

\* fetch_registry(force_refresh=False) answered from the cache without a
\* request.
AnsweredFromCache ==
  /\ lastFetch.made
  /\ ~lastFetch.force_refresh
  /\ ~lastFetch.network
  /\ lastFetch.exc = ""

InstalledDirect ==
  IF lastCommand.kind = "install" /\ lastCommand.exit = "ok"
  THEN {slug \in Slugs : /\ lastCommand.reports[slug] = "success"
                         /\ slug \in DOMAIN lockfile
                         /\ ~lockfile[slug].transitive}
  ELSE {}

\* C30: after an install command that completed, every slug it installed as
\* a direct dependency has a manifest entry whose range the version recorded
\* in the lockfile satisfies: the requested spec when it is the resolved
\* version, the caret range of the resolved version otherwise.
C30_ManifestRangeHoldsLock ==
  \A slug \in InstalledDirect :
    /\ slug \in Keys(manifest)
    /\ Get(manifest, slug) \in {lockfile[slug].version, Caret(lockfile[slug].version)}
    /\ VersionParse(lockfile[slug].version).ok
    /\ satisfies_version(VersionParse(lockfile[slug].version), Get(manifest, slug))

\* One project holds a direct dependency whose manifest entry is the version
\* that was requested and one whose entry is a caret range, the second
\* installed by the last command.
C30_Witness ==
  /\ InstalledDirect # {}
  /\ \E slug \in DOMAIN lockfile :
       slug \in Keys(manifest) /\ Get(manifest, slug) = lockfile[slug].version
  /\ \E slug \in InstalledDirect :
       Get(manifest, slug) = Caret(lockfile[slug].version)

\* The last install command wrote the requested version itself into the
\* manifest.
C30_WitnessExact ==
  \E slug \in InstalledDirect : Get(manifest, slug) = lockfile[slug].version

====
